---- MODULE Spec2Model ----
(***************************************************************************)
(* IR Tester: the playback engine (src/audio/audio_engine.py), its         *)
(* real-time output callback, and the shell's convolution pipeline         *)
(* (src/ui/main_window.py, src/audio/convolution_worker.py).               *)
(*                                                                         *)
(* Specification Spec is the engine under one controller thread issuing    *)
(* the engine's operations and the host audio thread running the stream    *)
(* callback; every read or write of an engine field is one step, so the    *)
(* two threads interleave as the interpreter lets them.                    *)
(* Specification SpecShell is the main window's event loop, the worker     *)
(* threads it starts and the queued signals between them.                  *)
(***************************************************************************)
EXTENDS Integers, Sequences, FiniteSets, TLC

(***************************************************************************)
(* Bounds of the model.                                                    *)
(***************************************************************************)
\* longest buffer handed to the engine, in samples
MaxLen == 3
\* block size the host asks the callback for (the `frames` argument)
Frames == 2
\* stream handles the host can hand out
MaxStreams == 2
\* convolution workers the shell starts in one run
MaxWorkers == 2
\* slider moves counted in one burst
MaxBurst == 2

(***************************************************************************)
(* Values.                                                                 *)
(* Samples are integers standing for amplitudes on a fine grid; the even   *)
(* ones are those a 32-bit float represents exactly.  Volume is in tenths. *)
(***************************************************************************)
\* Python's None for audio_data: a sentinel that is no buffer
None == <<-1>>
\* Python's None for sample_rate and for stream
NoRate == 0
NoStream == 0

Min(a, b) == IF a < b THEN a ELSE b
Max(a, b) == IF a > b THEN a ELSE b

\* int(n/d) for d > 0: truncation toward zero
Trunc(n, d) == IF n >= 0 THEN n \div d ELSE -((-n) \div d)

\* the float32 value nearest below a sample
F32(x) == x - (x % 2)
\* ndarray.astype(np.float32) / np.ascontiguousarray(.., dtype=np.float32)
AsFloat32(buf) == [i \in 1..Len(buf) |-> F32(buf[i])]

\* the buffers the shell hands over: float32 results of process()
Buffer(id, n) == [i \in 1..n |-> 2 * (10 * id + i)]
BufferIds == {1, 2}
\* an empty result, a one-sample one and the longest
BufferLengths == {0, 1, MaxLen}
Buffers == { Buffer(id, n) : id \in BufferIds, n \in BufferLengths }
SampleRates == {1, 2}
\* seconds are rationals num/den
Seconds == { [num |-> n, den |-> 2] : n \in {-1, 1, 3, 9} }
VolumeInputs == {-5, 5, 15}
StreamIds == 1..MaxStreams

VARIABLES
    audio_data, sample_rate, position, volume, _is_playing, _is_paused, stream,
    streams,    \* host: state of every stream handle
    cb,         \* host audio thread: the callback invocation on each stream
    outdata,    \* the block each invocation is filling
    ctl,        \* controller thread: the engine call it is in
    \* MainWindow and the objects it owns
    current_ir, current_di, convolution_processor, convolution_worker,
    _preserve_position, _saved_position, _was_playing, win_is_playing, is_looping,
    mix_slider, mix_debounce_timer, volume_slider, progress_bar, position_timer,
    header_raw_audio, current_sample_rate, equalizer_dialog,
    shared,     \* the engine's audio_data is the very array header_raw_audio is
    eq_failed,  \* the last process_frame call raised: its error was printed
    workers,    \* every ConvolutionWorker thread created so far
    events,     \* main thread's event queue: the workers' queued signals
    quiet,      \* time since the mix slider last moved, up to DebounceInterval
    burst,      \* moves of the mix slider in its latest burst, up to MaxBurst
    aborted     \* an exception left a slot: the application was aborted

engineVars == <<audio_data, sample_rate, position, volume, _is_playing, _is_paused, stream>>
hostVars == <<streams, cb, outdata>>
windowVars == <<current_ir, current_di, convolution_worker, _preserve_position,
                _saved_position, _was_playing, win_is_playing, is_looping, mix_slider,
                mix_debounce_timer, volume_slider, progress_bar, position_timer,
                header_raw_audio, shared, eq_failed, current_sample_rate,
                equalizer_dialog, aborted,
                quiet, burst>>
shellVars == <<windowVars, convolution_processor, workers, events>>

(***************************************************************************)
(* The controller thread.  ctl.op is the engine method the caller invoked, *)
(* ctl.pc the source line it is about to execute ("ret": the method has    *)
(* completed and is returning), the other fields its arguments and locals. *)
(***************************************************************************)
IdleCtl == [op |-> "none", pc |-> "idle", buf |-> <<>>, rate |-> NoRate, num |-> 0, den |-> 1]
At(op, pc) == [IdleCtl EXCEPT !.op = op, !.pc = pc]
Goto(pc) == [ctl EXCEPT !.pc = pc]

IdleCb == [pc |-> "idle", audio |-> None, audio_len |-> 0, pos |-> 0]
Silence == [k \in 1..Frames |-> 0]

has_audio == audio_data # None
get_position == [num |-> position, den |-> sample_rate]
get_duration == [num |-> Len(audio_data), den |-> sample_rate]
is_playing == _is_playing /\ ~_is_paused

\* exceptions the callback's `except Exception` clause catches
ExceptionSubclasses == {"CallbackStop", "CallbackAbort", "TypeError", "ValueError"}
\* a handler for the arithmetic and indexing errors only
CaughtErrorsOnly(exc) == exc \in {"TypeError", "ValueError"}
Caught(exc) == exc \in ExceptionSubclasses

(***************************************************************************)
(* AudioEngine.__init__                                                    *)
(***************************************************************************)
EngineInit ==
    /\ audio_data = None
    /\ sample_rate = NoRate
    /\ position = 0
    /\ volume = 8
    /\ _is_playing = FALSE
    /\ _is_paused = FALSE
    /\ stream = NoStream

HostInit ==
    /\ streams = [s \in StreamIds |-> "closed"]
    /\ cb = [s \in StreamIds |-> IdleCb]
    /\ outdata = [s \in StreamIds |-> <<>>]

(***************************************************************************)
(* stream.stop(); stream.close(); self.stream = None.  The host returns    *)
(* from stop() only when no callback invocation is running on the stream.  *)
(***************************************************************************)
CloseStream ==
    IF stream = NoStream
    THEN UNCHANGED <<stream, streams>>
    ELSE /\ cb[stream].pc = "idle"
         /\ streams' = [streams EXCEPT ![stream] = "closed"]
         /\ stream' = NoStream

(***************************************************************************)
(* AudioEngine.stop, also run as the first statement of load_audio         *)
(***************************************************************************)
StopEnter(op, buf, rate) ==
    /\ ctl.pc = "idle"
    /\ _is_playing' = FALSE
    /\ ctl' = [At(op, "stop_131") EXCEPT !.buf = buf, !.rate = rate]
    /\ UNCHANGED <<audio_data, sample_rate, position, volume, _is_paused, stream>>
    /\ UNCHANGED hostVars

StopClearPaused ==
    /\ ctl.pc = "stop_131"
    /\ _is_paused' = FALSE
    /\ ctl' = Goto("stop_132")
    /\ UNCHANGED <<audio_data, sample_rate, position, volume, _is_playing, stream>>
    /\ UNCHANGED hostVars

StopResetPosition ==
    /\ ctl.pc = "stop_132"
    /\ position' = 0
    /\ ctl' = Goto("stop_134")
    /\ UNCHANGED <<audio_data, sample_rate, volume, _is_playing, _is_paused, stream>>
    /\ UNCHANGED hostVars

StopCloseStream ==
    /\ ctl.pc = "stop_134"
    /\ CloseStream
    /\ ctl' = Goto(IF ctl.op = "load_audio" THEN "load_27" ELSE "ret")
    /\ UNCHANGED <<audio_data, sample_rate, position, volume, _is_playing, _is_paused>>
    /\ UNCHANGED <<cb, outdata>>

stop ==
    \/ StopEnter("stop", <<>>, NoRate)
    \/ StopClearPaused
    \/ StopResetPosition
    \/ StopCloseStream

(***************************************************************************)
(* AudioEngine.load_audio                                                  *)
(***************************************************************************)
LoadAssignAudio ==
    /\ ctl.pc = "load_27"
    /\ audio_data' = AsFloat32(ctl.buf)
    /\ ctl' = Goto("load_28")
    /\ UNCHANGED <<sample_rate, position, volume, _is_playing, _is_paused, stream>>
    /\ UNCHANGED hostVars

LoadAssignRate ==
    /\ ctl.pc = "load_28"
    /\ sample_rate' = ctl.rate
    /\ ctl' = Goto("load_29")
    /\ UNCHANGED <<audio_data, position, volume, _is_playing, _is_paused, stream>>
    /\ UNCHANGED hostVars

\* load_audio without its final cursor reset
LoadKeepPosition ==
    /\ ctl.pc = "load_29"
    /\ ctl' = Goto("ret")
    /\ UNCHANGED engineVars
    /\ UNCHANGED hostVars

LoadResetPosition ==
    /\ ctl.pc = "load_29"
    /\ position' = 0
    /\ ctl' = Goto("ret")
    /\ UNCHANGED <<audio_data, sample_rate, volume, _is_playing, _is_paused, stream>>
    /\ UNCHANGED hostVars

load_audio ==
    \/ \E b \in Buffers, r \in SampleRates : StopEnter("load_audio", b, r)
    \/ LoadAssignAudio
    \/ LoadAssignRate
    \/ LoadResetPosition

(***************************************************************************)
(* AudioEngine.update_audio (hot-swap): both branches bind the new array   *)
(***************************************************************************)
\* a hot-swap that rewinds the cursor
UpdateAudioResetCursor(b) ==
    /\ audio_data' = AsFloat32(b)
    /\ position' = 0
    /\ UNCHANGED <<sample_rate, volume, _is_playing, _is_paused, stream>>
    /\ UNCHANGED hostVars

UpdateAudio(b) ==
    /\ audio_data' = (IF _is_playing THEN AsFloat32(b) ELSE AsFloat32(b))
    /\ UNCHANGED <<sample_rate, position, volume, _is_playing, _is_paused, stream>>
    /\ UNCHANGED hostVars

update_audio ==
    \E b \in Buffers :
        /\ ctl.pc = "idle"
        /\ UpdateAudio(b)
        /\ ctl' = [At("update_audio", "ret") EXCEPT !.buf = b]

(***************************************************************************)
(* AudioEngine.play, also entered from resume                              *)
(***************************************************************************)
\* sd.OutputStream(...) then stream.start(): the handle the host hands out
NewStreamIn(st) == CHOOSE s \in StreamIds :
                       st[s] = "closed" /\ \A t \in StreamIds : st[t] = "closed" => s <= t
NewStream == NewStreamIn(streams)

PlayEnter ==
    /\ ctl.pc = "idle"
    /\ ctl' = At("play", IF has_audio THEN "play_50" ELSE "ret")
    /\ UNCHANGED engineVars
    /\ UNCHANGED hostVars

\* play() that forgets the stream it holds without stopping it
PlayDropPrevious ==
    /\ ctl.pc = "play_50"
    /\ stream' = NoStream
    /\ ctl' = Goto("play_58")
    /\ UNCHANGED <<audio_data, sample_rate, position, volume, _is_playing, _is_paused>>
    /\ UNCHANGED hostVars

PlayStopPrevious ==
    /\ ctl.pc = "play_50"
    /\ CloseStream
    /\ ctl' = Goto("play_58")
    /\ UNCHANGED <<audio_data, sample_rate, position, volume, _is_playing, _is_paused>>
    /\ UNCHANGED <<cb, outdata>>

PlaySetPlaying ==
    /\ ctl.pc = "play_58"
    /\ _is_playing' = TRUE
    /\ ctl' = Goto("play_59")
    /\ UNCHANGED <<audio_data, sample_rate, position, volume, _is_paused, stream>>
    /\ UNCHANGED hostVars

PlayClearPaused ==
    /\ ctl.pc = "play_59"
    /\ _is_paused' = FALSE
    /\ ctl' = Goto("play_103")
    /\ UNCHANGED <<audio_data, sample_rate, position, volume, _is_playing, stream>>
    /\ UNCHANGED hostVars

\* a play() whose handler at line 112 leaves the playing flag set
PlayOpenStreamKeepFlag ==
    /\ ctl.pc = "play_103"
    /\ \E s \in StreamIds : streams[s] = "closed"
    /\ \E outcome \in {"started", "open_failed", "start_failed"} :
          /\ stream' = (IF outcome = "open_failed" THEN stream ELSE NewStream)
          /\ streams' = (IF outcome = "open_failed" THEN streams
                         ELSE [streams EXCEPT ![NewStream] =
                                 IF outcome = "started" THEN "active" ELSE "inactive"])
    /\ ctl' = Goto("ret")
    /\ UNCHANGED <<audio_data, sample_rate, position, volume, _is_playing, _is_paused>>
    /\ UNCHANGED <<cb, outdata>>

\* lines 102-114: the stream opens and starts, or the constructor raises
\* (no handle is bound), or start() raises (the handle is bound, not running)
PlayOpenStream ==
    /\ ctl.pc = "play_103"
    /\ \E s \in StreamIds : streams[s] = "closed"
    /\ \E outcome \in {"started", "open_failed", "start_failed"} :
          /\ stream' = (IF outcome = "open_failed" THEN stream ELSE NewStream)
          /\ streams' = (IF outcome = "open_failed" THEN streams
                         ELSE [streams EXCEPT ![NewStream] =
                                 IF outcome = "started" THEN "active" ELSE "inactive"])
          /\ _is_playing' = (IF outcome = "started" THEN _is_playing ELSE FALSE)
    /\ ctl' = Goto("ret")
    /\ UNCHANGED <<audio_data, sample_rate, position, volume, _is_paused>>
    /\ UNCHANGED <<cb, outdata>>

play ==
    \/ PlayEnter
    \/ PlayStopPrevious
    \/ PlaySetPlaying
    \/ PlayClearPaused
    \/ PlayOpenStream

(***************************************************************************)
(* AudioEngine.pause / AudioEngine.resume                                  *)
(***************************************************************************)
\* a pause() that also rewinds the cursor
PauseRewind ==
    /\ ctl.pc = "idle"
    /\ _is_paused' = TRUE
    /\ position' = 0
    /\ ctl' = At("pause", "ret")
    /\ UNCHANGED <<audio_data, sample_rate, volume, _is_playing, stream>>
    /\ UNCHANGED hostVars

pause ==
    /\ ctl.pc = "idle"
    /\ _is_paused' = TRUE
    /\ ctl' = At("pause", "ret")
    /\ UNCHANGED <<audio_data, sample_rate, position, volume, _is_playing, stream>>
    /\ UNCHANGED hostVars

\* a resume() that acts only on a paused engine
ResumeOnlyFromPaused ==
    /\ ctl.pc = "idle"
    /\ ctl' = At("resume", IF _is_paused /\ _is_playing THEN "resume_123" ELSE "ret")
    /\ UNCHANGED engineVars
    /\ UNCHANGED hostVars

ResumeEnter ==
    /\ ctl.pc = "idle"
    /\ ctl' = At("resume", IF _is_paused /\ _is_playing THEN "resume_123"
                           ELSE IF ~_is_playing /\ has_audio THEN "play_50"
                           ELSE "ret")
    /\ UNCHANGED engineVars
    /\ UNCHANGED hostVars

ResumeClearPaused ==
    /\ ctl.pc = "resume_123"
    /\ _is_paused' = FALSE
    /\ ctl' = Goto("ret")
    /\ UNCHANGED <<audio_data, sample_rate, position, volume, _is_playing, stream>>
    /\ UNCHANGED hostVars

resume ==
    \/ ResumeEnter
    \/ ResumeClearPaused

(***************************************************************************)
(* AudioEngine.seek / AudioEngine.seek_relative                            *)
(***************************************************************************)
\* lines 147-148: int(seconds * sample_rate) clamped to [0, len - 1]
\* a clamp that lets the cursor reach the buffer length
SeekSamplesToEnd(t, rate, len) == Max(0, Min(Trunc(t.num * rate, t.den), len))

SeekSamples(t, rate, len) == Max(0, Min(Trunc(t.num * rate, t.den), len - 1))
SeekTarget(t) == SeekSamples(t, sample_rate, Len(audio_data))

\* line 149; with no sample rate bound, line 147 raises TypeError to the caller
SeekStore(t) ==
    position' = (IF sample_rate = NoRate THEN position ELSE SeekTarget(t))

seek ==
    \E t \in Seconds :
        /\ ctl.pc = "idle"
        /\ IF has_audio THEN SeekStore(t) ELSE position' = position
        /\ ctl' = [At("seek", "ret") EXCEPT !.num = t.num, !.den = t.den]
        /\ UNCHANGED <<audio_data, sample_rate, volume, _is_playing, _is_paused, stream>>
        /\ UNCHANGED hostVars

\* lines 156-157: new_pos = get_position() + delta_seconds
SeekRelativeEnter ==
    \E d \in Seconds :
        /\ ctl.pc = "idle"
        /\ ctl' = IF has_audio /\ sample_rate # NoRate
                  THEN [At("seek_relative", "seek_147") EXCEPT
                            !.num = get_position.num * d.den + d.num * get_position.den,
                            !.den = get_position.den * d.den]
                  ELSE At("seek_relative", "ret")
        /\ UNCHANGED engineVars
        /\ UNCHANGED hostVars

\* line 158: self.seek(new_pos)
SeekRelativeSeek ==
    /\ ctl.pc = "seek_147"
    /\ SeekStore([num |-> ctl.num, den |-> ctl.den])
    /\ ctl' = Goto("ret")
    /\ UNCHANGED <<audio_data, sample_rate, volume, _is_playing, _is_paused, stream>>
    /\ UNCHANGED hostVars

seek_relative ==
    \/ SeekRelativeEnter
    \/ SeekRelativeSeek

(***************************************************************************)
(* AudioEngine.set_volume                                                  *)
(***************************************************************************)
\* a set_volume that stores its argument as it is
VolumeUnclamped(v) == v

ClampVolume(v) == Max(0, Min(10, v))

set_volume ==
    \E v \in VolumeInputs :
        /\ ctl.pc = "idle"
        /\ volume' = ClampVolume(v)
        /\ ctl' = At("set_volume", "ret")
        /\ UNCHANGED <<audio_data, sample_rate, position, _is_playing, _is_paused, stream>>
        /\ UNCHANGED hostVars

\* the engine method returns to its caller
Return ==
    /\ ctl.pc = "ret"
    /\ ctl' = IdleCtl
    /\ UNCHANGED engineVars
    /\ UNCHANGED hostVars

(***************************************************************************)
(* AudioEngine.play.callback: one invocation on stream s, a step per read  *)
(* or write of an engine field.                                            *)
(***************************************************************************)
CbGoto(s, pc) == [cb EXCEPT ![s].pc = pc]
Emit(s, block) == [outdata EXCEPT ![s] = block]

\* line 66, left operand: self._is_paused
CbCheckPaused(s) ==
    /\ streams[s] = "active"
    /\ cb[s].pc = "idle"
    /\ IF _is_paused
       THEN cb' = CbGoto(s, "ret") /\ outdata' = Emit(s, Silence)
       ELSE cb' = CbGoto(s, "cb_66") /\ UNCHANGED outdata
    /\ UNCHANGED <<engineVars, streams, ctl>>

\* line 66, right operand: not self._is_playing
CbCheckPlaying(s) ==
    /\ cb[s].pc = "cb_66"
    /\ IF ~_is_playing
       THEN cb' = CbGoto(s, "ret") /\ outdata' = Emit(s, Silence)
       ELSE cb' = CbGoto(s, "cb_70") /\ UNCHANGED outdata
    /\ UNCHANGED <<engineVars, streams, ctl>>

\* lines 70-75: current_audio = self.audio_data, read once
CbReadAudio(s) ==
    /\ cb[s].pc = "cb_70"
    /\ IF audio_data = None
       THEN cb' = CbGoto(s, "ret") /\ outdata' = Emit(s, Silence)
       ELSE /\ cb' = [cb EXCEPT ![s].pc = "cb_76", ![s].audio = audio_data,
                                ![s].audio_len = Len(audio_data)]
            /\ UNCHANGED outdata
    /\ UNCHANGED <<engineVars, streams, ctl>>

\* lines 76-80: pos = self.position
CbReadPosition(s) ==
    /\ cb[s].pc = "cb_76"
    /\ IF position >= cb[s].audio_len
       THEN /\ cb' = [cb EXCEPT ![s].pc = "cb_81", ![s].pos = position]
            /\ outdata' = Emit(s, Silence)
       ELSE /\ cb' = [cb EXCEPT ![s].pc = "cb_84", ![s].pos = position]
            /\ UNCHANGED outdata
    /\ UNCHANGED <<engineVars, streams, ctl>>

\* lines 81-82 and 96-98: the playing flag is cleared and CallbackStop is
\* raised inside the try block; the handler at line 96 catches what Caught
\* says, fills the block with zeros and returns normally, so the host keeps
\* the stream running; otherwise the host stops the stream after this block
CbFinished(s) ==
    /\ cb[s].pc = "cb_81"
    /\ _is_playing' = FALSE
    /\ outdata' = Emit(s, Silence)
    /\ cb' = CbGoto(s, "ret")
    /\ streams' = (IF Caught("CallbackStop") THEN streams
                   ELSE [streams EXCEPT ![s] = "inactive"])
    /\ UNCHANGED <<audio_data, sample_rate, position, volume, _is_paused, stream, ctl>>

\* a callback that dereferences self.audio_data again when it copies
CbBlockReread(s) ==
    [k \in 1..Frames |-> IF cb[s].pos + k <= Min(cb[s].audio_len, Len(audio_data))
                         THEN audio_data[cb[s].pos + k] * volume ELSE 0]

\* a callback that does not zero the rest of the last block: the block keeps
\* the last sample there
CbBlockNoZeroFill(s) ==
    [k \in 1..Frames |-> cb[s].audio[Min(cb[s].pos + k, cb[s].audio_len)] * volume]

\* lines 84-93: the samples of current_audio from pos, scaled by the volume
CbBlock(s) ==
    LET a == cb[s].audio
        pos == cb[s].pos
        end_pos == pos + Frames
        remaining == cb[s].audio_len - pos
    IN  IF end_pos > cb[s].audio_len
        THEN [k \in 1..Frames |-> IF k <= remaining THEN a[pos + k] * volume ELSE 0]
        ELSE [k \in 1..Frames |-> a[pos + k] * volume]

CbCopy(s) ==
    /\ cb[s].pc = "cb_84"
    /\ outdata' = Emit(s, CbBlock(s))
    /\ cb' = CbGoto(s, "cb_90")
    /\ UNCHANGED <<engineVars, streams, ctl>>

\* a callback that always stores end_pos
CbStoreEndPos(s) ==
    /\ cb[s].pc = "cb_90"
    /\ position' = cb[s].pos + Frames
    /\ cb' = CbGoto(s, "ret")
    /\ UNCHANGED <<audio_data, sample_rate, volume, _is_playing, _is_paused, stream>>
    /\ UNCHANGED <<streams, outdata, ctl>>

\* lines 90 and 94: self.position = audio_len or end_pos
CbStorePosition(s) ==
    /\ cb[s].pc = "cb_90"
    /\ position' = (IF cb[s].pos + Frames > cb[s].audio_len
                    THEN cb[s].audio_len ELSE cb[s].pos + Frames)
    /\ cb' = CbGoto(s, "ret")
    /\ UNCHANGED <<audio_data, sample_rate, volume, _is_playing, _is_paused, stream>>
    /\ UNCHANGED <<streams, outdata, ctl>>

\* the invocation returns; the host takes the block
CbReturn(s) ==
    /\ cb[s].pc = "ret"
    /\ cb' = [cb EXCEPT ![s] = IdleCb]
    /\ outdata' = Emit(s, <<>>)
    /\ UNCHANGED <<engineVars, streams, ctl>>

callback ==
    \E s \in StreamIds :
        \/ CbCheckPaused(s)
        \/ CbCheckPlaying(s)
        \/ CbReadAudio(s)
        \/ CbReadPosition(s)
        \/ CbFinished(s)
        \/ CbCopy(s)
        \/ CbStorePosition(s)
        \/ CbReturn(s)

\* what the callback does in this step besides reading and writing fields
\* and copying samples: print(f"Error in audio callback: {e}") in the handler
\* that catches the CallbackStop of line 82 (line 97), and the new array
\* chunk * self.volume builds before it is copied into outdata (lines 88, 93)
CbEffects(s) ==
    IF cb[s].pc = "cb_81" /\ cb'[s].pc = "ret" /\ Caught("CallbackStop") THEN {"io"}
    ELSE IF cb[s].pc = "cb_84" /\ cb'[s].pc = "cb_90" THEN {"allocation"}
    ELSE {}

(***************************************************************************)
(* Arithmetic on seconds and on signals.  A second count is a rational     *)
(* num/den; a signal is an integer vector v over a positive scale s, its   *)
(* samples being v[i]/s, so peak normalisation and mixing are exact.       *)
(***************************************************************************)
Abs(x) == IF x < 0 THEN -x ELSE x
Rat(n, d) == [num |-> n, den |-> d]
RatLess(a, b) == a.num * b.den < b.num * a.den
RatMin(a, b) == IF RatLess(b, a) THEN b ELSE a
RatSub(a, b) == Rat(a.num * b.den - b.num * a.den, a.den * b.den)

\* np.max(np.abs(v)) of a non-empty vector
MaxAbs(v) == CHOOSE m \in { Abs(v[i]) : i \in 1..Len(v) } :
                 \A i \in 1..Len(v) : Abs(v[i]) <= m

\* data / max_val when max_val > 0
PeakNormalize(v) == [v |-> v, s |-> IF MaxAbs(v) > 0 THEN MaxAbs(v) ELSE 1]

\* samples in hundredths of full scale, as float32
Quantize(sig) == [i \in 1..Len(sig.v) |-> F32(Trunc(sig.v[i] * 100, sig.s))]

(***************************************************************************)
(* ConvolutionProcessor                                                    *)
(***************************************************************************)
NoPath == ""
NoData == [v |-> <<>>, s |-> 0]

\* sf.read(filepath): the decoded mono samples and the file's rate, or a
\* decode failure
Files ==
    [ ir_a |-> [ok |-> TRUE, data |-> <<3>>, rate |-> 1],
      ir_b |-> [ok |-> TRUE, data |-> <<-2>>, rate |-> 2],
      ir_bad |-> [ok |-> FALSE, data |-> <<>>, rate |-> 0],
      ir_c |-> [ok |-> TRUE, data |-> <<2, -4, 1>>, rate |-> 2],
      ir_d |-> [ok |-> TRUE, data |-> <<1, 3>>, rate |-> 3],
      di_a |-> [ok |-> TRUE, data |-> <<1, 2>>, rate |-> 1],
      di_b |-> [ok |-> TRUE, data |-> <<2, -1, 1>>, rate |-> 2],
      di_c |-> [ok |-> TRUE, data |-> <<-3>>, rate |-> 3],
      di_bad |-> [ok |-> FALSE, data |-> <<>>, rate |-> 0] ]
\* the items of the file trees
IRPaths == {"ir_a", "ir_b", "ir_bad"}
DIPaths == {"di_a", "di_bad"}
\* every file a processor is loaded from
AllIRPaths == IRPaths \cup {"ir_c", "ir_d"}
AllDIPaths == DIPaths \cup {"di_b", "di_c"}

ProcessorInit ==
    [ir_data |-> NoData, ir_sample_rate |-> NoRate,
     di_data |-> NoData, di_sample_rate |-> NoRate,
     last_result |-> None, last_sample_rate |-> NoRate]

\* load_ir / load_di: the processor after the call; a failed read clears the
\* asset (and the call raises)
LoadOk(path) == Files[path].ok /\ Len(Files[path].data) > 0
load_ir(proc, path) ==
    IF LoadOk(path)
    THEN [proc EXCEPT !.ir_data = PeakNormalize(Files[path].data),
                      !.ir_sample_rate = Files[path].rate]
    ELSE [proc EXCEPT !.ir_data = NoData, !.ir_sample_rate = NoRate]

load_di(proc, path) ==
    IF LoadOk(path)
    THEN [proc EXCEPT !.di_data = PeakNormalize(Files[path].data),
                      !.di_sample_rate = Files[path].rate]
    ELSE [proc EXCEPT !.di_data = NoData, !.di_sample_rate = NoRate]

\* scipy.signal.resample(x, num): num samples spanning the input; the value
\* of each is taken from the input sample it falls on (a one-sample signal
\* gives its constant value), the Fourier interpolation is not computed
Resample(v, num) == [i \in 1..num |-> v[((i - 1) * Len(v)) \div num + 1]]

\* scipy.signal.fftconvolve(a, b, mode='full')
ConvSum(a, b, n) ==
    LET RECURSIVE Sum(_)
        Sum(k) == IF k = 0 THEN 0
                  ELSE (IF n - k + 1 \in 1..Len(b) THEN a[k] * b[n - k + 1] ELSE 0)
                       + Sum(k - 1)
    IN  Sum(Len(a))
FftConvolve(a, b) == [n \in 1..(Len(a) + Len(b) - 1) |-> ConvSum(a, b, n)]

\* round(n / d) for n >= 0, d > 0: to the nearest integer, a half to the even
Round(n, d) ==
    LET q == n \div d
        r == n % d
    IN  IF 2 * r < d THEN q
        ELSE IF 2 * r > d THEN q + 1
        ELSE IF q % 2 = 0 THEN q ELSE q + 1

\* a resampling to the rounded number of samples
ResampledIRRounded(proc) ==
    IF proc.ir_sample_rate # proc.di_sample_rate
    THEN Resample(proc.ir_data.v,
                  Round(Len(proc.ir_data.v) * proc.di_sample_rate, proc.ir_sample_rate))
    ELSE proc.ir_data.v

\* lines 104-108
ResampledIR(proc) ==
    IF proc.ir_sample_rate # proc.di_sample_rate
    THEN Resample(proc.ir_data.v,
                  Trunc(Len(proc.ir_data.v) * proc.di_sample_rate, proc.ir_sample_rate))
    ELSE proc.ir_data.v

\* a wet signal cut to the length of the DI
WetSignalDILength(proc) ==
    LET full == FftConvolve(proc.di_data.v, ResampledIR(proc))
    IN  PeakNormalize(SubSeq(full, 1, Len(proc.di_data.v)))

\* lines 112-122: the convolution, truncated and peak-normalised
WetSignal(proc) ==
    LET full == FftConvolve(proc.di_data.v, ResampledIR(proc))
        output_length == Len(proc.di_data.v) + Len(ResampledIR(proc)) - 1
    IN  PeakNormalize(SubSeq(full, 1, Min(output_length, Len(full))))

\* a mix that leaves the wet signal in at wet_mix = 0: the dry signal is
\* added to the wet one instead of replacing its share
MixedOverWet(proc, wet_mix) ==
    LET wet == WetSignal(proc)
        dry == proc.di_data
    IN  IF wet_mix < 100
        THEN [v |-> [i \in 1..Len(wet.v) |->
                        (100 - wet_mix) * (IF i <= Len(dry.v) THEN dry.v[i] ELSE 0) * wet.s
                        + 100 * wet.v[i] * dry.s],
              s |-> 100 * dry.s * wet.s]
        ELSE wet

\* lines 125-132: (1 - wet_mix) * dry + wet_mix * wet, wet_mix in percent
Mixed(proc, wet_mix) ==
    LET wet == WetSignal(proc)
        dry == proc.di_data
    IN  IF wet_mix < 100
        THEN [v |-> [i \in 1..Len(wet.v) |->
                        (100 - wet_mix) * (IF i <= Len(dry.v) THEN dry.v[i] ELSE 0) * wet.s
                        + wet_mix * wet.v[i] * dry.s],
              s |-> 100 * dry.s * wet.s]
        ELSE wet

\* lines 135-140: result / max_result * 0.9 as float32
FinalResult(proc, wet_mix) ==
    LET result == Mixed(proc, wet_mix)
        max_result == MaxAbs(result.v)
    IN  Quantize(IF max_result > 0
                 THEN [v |-> [i \in 1..Len(result.v) |-> 9 * result.v[i]],
                       s |-> 10 * max_result]
                 ELSE result)

\* what raises inside the try block: an empty resampled IR
ProcessRaises(proc) == Len(ResampledIR(proc)) = 0

\* a process() that drops both assets when one is missing
ProcessClearsOnMiss(proc, wet_mix) ==
    IF proc.ir_data = NoData \/ proc.di_data = NoData
    THEN [ok |-> FALSE, audio_data |-> None, sample_rate |-> NoRate,
          proc |-> [proc EXCEPT !.ir_data = NoData, !.ir_sample_rate = NoRate,
                                !.di_data = NoData, !.di_sample_rate = NoRate]]
    ELSE IF ProcessRaises(proc)
    THEN [ok |-> FALSE, audio_data |-> None, sample_rate |-> NoRate, proc |-> proc]
    ELSE [ok |-> TRUE,
          audio_data |-> FinalResult(proc, wet_mix),
          sample_rate |-> proc.di_sample_rate,
          proc |-> [proc EXCEPT !.last_result = FinalResult(proc, wet_mix),
                                !.last_sample_rate = proc.di_sample_rate]]

\* process(wet_mix): [ok, audio_data, sample_rate, proc], proc the processor
\* afterwards; (None, None) is ok = FALSE
process(proc, wet_mix) ==
    IF proc.ir_data = NoData \/ proc.di_data = NoData \/ ProcessRaises(proc)
    THEN [ok |-> FALSE, audio_data |-> None, sample_rate |-> NoRate, proc |-> proc]
    ELSE [ok |-> TRUE,
          audio_data |-> FinalResult(proc, wet_mix),
          sample_rate |-> proc.di_sample_rate,
          proc |-> [proc EXCEPT !.last_result = FinalResult(proc, wet_mix),
                                !.last_sample_rate = proc.di_sample_rate]]

(***************************************************************************)
(* Equalizer.process_frame.  The biquad cascade is reduced to the gain     *)
(* each non-zero band applies at its centre: 10^(g/20) taken as 1 + g/12.  *)
(***************************************************************************)
FlatGains == [i \in 1..10 |-> 0]
BANDS == <<31, 62, 125, 250, 500, 1000, 2000, 4000, 8000, 16000>>
\* the rate in Hz the files' rate 1 stands for
RateUnit == 22050
\* scipy.signal.iirpeak(freq, Q=2.0, fs=sample_rate), called for every band
\* with a gain, raises ValueError unless 0 <= 2 * freq / fs <= 1
IirpeakRaises(rate, gains_db) ==
    \E i \in 1..10 : gains_db[i] # 0 /\ 2 * BANDS[i] > RateUnit * rate
Clip(x) == Max(-100, Min(100, x))
RECURSIVE SosFilt(_, _, _)
SosFilt(x, gains_db, band) ==
    IF band > Len(gains_db) THEN x
    ELSE IF gains_db[band] = 0 THEN SosFilt(x, gains_db, band + 1)
    ELSE SosFilt(Trunc(x * (12 + gains_db[band]), 12), gains_db, band + 1)

\* a cascade of band-pass sections (iirpeak, line 37) run whatever the gains:
\* it attenuates what lies between the bands
BandPassCascade(audio, rate, gains_db) ==
    [ok |-> Len(gains_db) = 10,
     audio |-> [i \in 1..Len(audio) |-> F32(Trunc(audio[i], 2))]]

\* a process_frame that takes a list of another length for flat gains
ProcessFrameLenient(audio, rate, gains_db) ==
    IF Len(gains_db) # 10 \/ \A i \in 1..10 : gains_db[i] = 0
    THEN [ok |-> TRUE, audio |-> audio]
    ELSE IF IirpeakRaises(rate, gains_db) THEN [ok |-> FALSE, audio |-> audio]
    ELSE [ok |-> TRUE,
          audio |-> [i \in 1..Len(audio) |-> F32(Clip(SosFilt(audio[i], gains_db, 1)))]]

\* a process_frame that returns what the cascade gave, unclipped
ProcessFrameUnclipped(audio, rate, gains_db) ==
    IF Len(gains_db) # 10 THEN [ok |-> FALSE, audio |-> audio]
    ELSE IF \A i \in 1..10 : gains_db[i] = 0 THEN [ok |-> TRUE, audio |-> audio]
    ELSE IF IirpeakRaises(rate, gains_db) THEN [ok |-> FALSE, audio |-> audio]
    ELSE [ok |-> TRUE,
          audio |-> [i \in 1..Len(audio) |-> F32(SosFilt(audio[i], gains_db, 1))]]

\* [ok, audio]: ok = FALSE is the ValueError of line 20 or of iirpeak (line 37)
process_frame(audio, rate, gains_db) ==
    IF Len(gains_db) # 10 THEN [ok |-> FALSE, audio |-> audio]
    ELSE IF \A i \in 1..10 : gains_db[i] = 0 THEN [ok |-> TRUE, audio |-> audio]
    ELSE IF IirpeakRaises(rate, gains_db) THEN [ok |-> FALSE, audio |-> audio]
    ELSE [ok |-> TRUE,
          audio |-> [i \in 1..Len(audio) |-> F32(Clip(SosFilt(audio[i], gains_db, 1)))]]

(***************************************************************************)
(* MainWindow.__init__ and the objects it creates                          *)
(***************************************************************************)
NoWorker == 0
\* mix_debounce_timer.start(300), in steps of 100 ms
DebounceInterval == 3
\* a QTimer: isActive() and remainingTime()
StoppedTimer == [active |-> FALSE, remaining |-> 0]
WorkerIds == 1..MaxWorkers
\* the positions the user drags the mix slider to
MixInputs == {50, 100}

\* a ConvolutionWorker before start(): its thread state, the line of run()
\* it is at, its wet_mix argument (percent) and run()'s locals
NewWorker == [state |-> "unstarted", pc |-> "run_27", wet_mix |-> 0,
              ir_resampled |-> NoData, audio_data |-> None, sample_rate |-> NoRate]

ShellInit ==
    /\ current_ir = NoPath
    /\ current_di = NoPath
    /\ convolution_processor = ProcessorInit
    /\ convolution_worker = NoWorker
    /\ _preserve_position = FALSE
    /\ _saved_position = Rat(0, 1)
    /\ _was_playing = TRUE
    /\ win_is_playing = FALSE
    /\ is_looping = TRUE
    /\ mix_slider = 100
    /\ mix_debounce_timer = StoppedTimer
    /\ volume_slider = 80
    /\ progress_bar = [value |-> 0, visible |-> FALSE]
    /\ position_timer = FALSE
    /\ header_raw_audio = None
    /\ shared = FALSE
    /\ eq_failed = FALSE
    /\ current_sample_rate = 44100
    /\ equalizer_dialog = [btn_enable |-> TRUE, current_gains |-> FlatGains]
    /\ workers = [w \in WorkerIds |-> NewWorker]
    /\ events = <<>>
    /\ aborted = FALSE
    /\ quiet = DebounceInterval
    /\ burst = 0

\* QThread.isRunning()
isRunning(w) == workers[w].state = "running"
\* a signal emitted on a worker thread: a queued call posted to the main
\* thread's event queue
Post(sig, w, value, audio, rate) ==
    Append(events, [sig |-> sig, worker |-> w, value |-> value,
                    audio |-> audio, rate |-> rate])

(***************************************************************************)
(* MainWindow.process_and_play, reached with current_ir = ir and           *)
(* current_di = di: everything but the fields its callers assign           *)
(***************************************************************************)
\* the ConvolutionWorker constructed at line 806
NextWorker == CHOOSE w \in WorkerIds :
                  workers[w].state = "unstarted"
                  /\ \A v \in WorkerIds : workers[v].state = "unstarted" => w <= v

\* a process_and_play that starts the next worker beside the previous one
KeepPrevious(ws) == ws

\* lines 797-799: terminate() and wait() on a worker that is still running;
\* what it has already posted stays in the event queue
CancelPrevious(ws) ==
    IF convolution_worker # NoWorker /\ isRunning(convolution_worker)
    THEN [ws EXCEPT ![convolution_worker].state = "terminated"]
    ELSE ws

process_and_play(ir, di, preserve_position) ==
    IF ir # NoPath /\ di # NoPath
    THEN /\ \E w \in WorkerIds : workers[w].state = "unstarted"
         /\ _preserve_position' = preserve_position
         /\ IF preserve_position /\ has_audio
            THEN /\ _saved_position' = get_position
                 /\ _was_playing' = win_is_playing
            ELSE /\ _saved_position' = Rat(0, 1)
                 /\ _was_playing' = TRUE
         /\ progress_bar' = [value |-> 0, visible |-> TRUE]
         /\ workers' = [CancelPrevious(workers) EXCEPT
                            ![NextWorker] = [NewWorker EXCEPT !.state = "running",
                                                              !.wet_mix = mix_slider]]
         /\ convolution_worker' = NextWorker
    ELSE UNCHANGED <<_preserve_position, _saved_position, _was_playing, progress_bar,
                     workers, convolution_worker>>

\* what no selection or mix handler touches
SelectionFrame ==
    /\ UNCHANGED <<win_is_playing, is_looping, volume_slider, position_timer,
                   header_raw_audio, shared, eq_failed,
                   current_sample_rate, equalizer_dialog, events>>
    /\ UNCHANGED <<engineVars, hostVars, ctl>>

\* an exception leaves the slot: no handler catches it and the application
\* is aborted
Abort ==
    /\ aborted' = TRUE
    /\ UNCHANGED <<_preserve_position, _saved_position, _was_playing, progress_bar,
                   workers, convolution_worker>>

(***************************************************************************)
(* MainWindow.on_ir_selected / on_di_selected, for a file item             *)
(***************************************************************************)
on_ir_selected ==
    \E filepath \in IRPaths :
        /\ ~aborted
        /\ current_ir' = filepath
        /\ convolution_processor' = load_ir(convolution_processor, filepath)
        /\ IF LoadOk(filepath)
           THEN process_and_play(filepath, current_di, TRUE) /\ UNCHANGED aborted
           ELSE Abort
        /\ UNCHANGED <<current_di, mix_slider, mix_debounce_timer, quiet, burst>>
        /\ SelectionFrame

on_di_selected ==
    \E filepath \in DIPaths :
        /\ ~aborted
        /\ current_di' = filepath
        /\ convolution_processor' = load_di(convolution_processor, filepath)
        /\ IF LoadOk(filepath)
           THEN process_and_play(current_ir, filepath, FALSE) /\ UNCHANGED aborted
           ELSE Abort
        /\ UNCHANGED <<current_ir, mix_slider, mix_debounce_timer, quiet, burst>>
        /\ SelectionFrame

(***************************************************************************)
(* MainWindow.on_mix_changed / _on_mix_debounced                           *)
(***************************************************************************)
\* a slot that leaves a running timer to expire when it was due
MixChangedKeepsTimer ==
    \E value \in MixInputs :
        /\ ~aborted
        /\ value # mix_slider
        /\ mix_slider' = value
        /\ mix_debounce_timer' = (IF mix_debounce_timer.active THEN mix_debounce_timer
                                  ELSE [active |-> TRUE, remaining |-> DebounceInterval])
        /\ quiet' = 0
        /\ burst' = (IF mix_debounce_timer.active THEN Min(burst + 1, MaxBurst) ELSE 1)
        /\ UNCHANGED <<current_ir, current_di, convolution_processor, aborted>>
        /\ UNCHANGED <<_preserve_position, _saved_position, _was_playing, progress_bar,
                       workers, convolution_worker>>
        /\ SelectionFrame

\* the slider moves to another value: the single-shot timer is stopped and
\* started again with the whole interval
on_mix_changed ==
    \E value \in MixInputs :
        /\ ~aborted
        /\ value # mix_slider
        /\ mix_slider' = value
        /\ mix_debounce_timer' = [active |-> TRUE, remaining |-> DebounceInterval]
        /\ quiet' = 0
        /\ burst' = (IF mix_debounce_timer.active THEN Min(burst + 1, MaxBurst) ELSE 1)
        /\ UNCHANGED <<current_ir, current_di, convolution_processor, aborted>>
        /\ UNCHANGED <<_preserve_position, _saved_position, _was_playing, progress_bar,
                       workers, convolution_worker>>
        /\ SelectionFrame

\* n times 100 ms pass with no event for the main thread: a running timer
\* comes closer to its timeout, which the event loop handles before more time
\* passes
Elapse(n) ==
    /\ ~aborted
    /\ mix_debounce_timer.active => mix_debounce_timer.remaining >= n
    /\ mix_debounce_timer' =
          (IF mix_debounce_timer.active
           THEN [mix_debounce_timer EXCEPT !.remaining = @ - n]
           ELSE mix_debounce_timer)
    /\ quiet' = Min(quiet + n, DebounceInterval)
    /\ UNCHANGED burst
    /\ UNCHANGED <<current_ir, current_di, convolution_processor, aborted, mix_slider>>
    /\ UNCHANGED <<_preserve_position, _saved_position, _was_playing, progress_bar,
                   workers, convolution_worker>>
    /\ SelectionFrame

Tick == Elapse(1)
\* the slider is left alone for the whole debounce interval
Quiescence == Elapse(DebounceInterval)

\* the timer's timeout: a single-shot timer stops when it fires
_on_mix_debounced ==
    /\ ~aborted
    /\ mix_debounce_timer.active /\ mix_debounce_timer.remaining = 0
    /\ mix_debounce_timer' = StoppedTimer
    /\ UNCHANGED <<mix_slider, quiet, burst>>
    /\ IF current_ir # NoPath /\ current_di # NoPath
       THEN process_and_play(current_ir, current_di, TRUE)
       ELSE UNCHANGED <<_preserve_position, _saved_position, _was_playing, progress_bar,
                        workers, convolution_worker>>
    /\ UNCHANGED <<current_ir, current_di, convolution_processor, aborted>>
    /\ SelectionFrame

(***************************************************************************)
(* ConvolutionWorker.run on the thread of worker w, a step per statement.  *)
(* process() reads the processor the window shares with the worker.        *)
(***************************************************************************)
WorkerFrame ==
    /\ UNCHANGED windowVars
    /\ UNCHANGED <<engineVars, hostVars, ctl>>

\* line 27: self.progress.emit(10)
RunEmitStarted(w) ==
    /\ isRunning(w) /\ workers[w].pc = "run_27"
    /\ events' = Post("progress", w, 10, None, NoRate)
    /\ workers' = [workers EXCEPT ![w].pc = "run_29"]
    /\ UNCHANGED convolution_processor
    /\ WorkerFrame

\* line 29: audio_data, sample_rate = self.processor.process(self.wet_mix)
RunProcess(w) ==
    /\ isRunning(w) /\ workers[w].pc = "run_29"
    /\ LET r == process(convolution_processor, workers[w].wet_mix)
       IN  /\ workers' = [workers EXCEPT ![w].pc = "run_31",
                                         ![w].audio_data = r.audio_data,
                                         ![w].sample_rate = r.sample_rate]
           /\ convolution_processor' = r.proc
    /\ UNCHANGED events
    /\ WorkerFrame

\* line 31: self.progress.emit(100)
RunEmitDone(w) ==
    /\ isRunning(w) /\ workers[w].pc = "run_31"
    /\ events' = Post("progress", w, 100, None, NoRate)
    /\ workers' = [workers EXCEPT ![w].pc = "run_33"]
    /\ UNCHANGED convolution_processor
    /\ WorkerFrame

\* a run() that emits finished whatever process() returned
RunEmitFinishedAlways(w) ==
    /\ isRunning(w) /\ workers[w].pc = "run_33"
    /\ events' = Post("finished", w, 0, workers[w].audio_data, workers[w].sample_rate)
    /\ workers' = [workers EXCEPT ![w].pc = "exit"]
    /\ UNCHANGED convolution_processor
    /\ WorkerFrame

\* lines 33-36: finished.emit(audio_data, sample_rate) or error.emit(..)
RunEmitResult(w) ==
    /\ isRunning(w) /\ workers[w].pc = "run_33"
    /\ events' = (IF workers[w].audio_data # None
                  THEN Post("finished", w, 0, workers[w].audio_data, workers[w].sample_rate)
                  ELSE Post("error", w, 0, None, NoRate))
    /\ workers' = [workers EXCEPT ![w].pc = "exit"]
    /\ UNCHANGED convolution_processor
    /\ WorkerFrame

\* run() returns and the thread ends
RunReturn(w) ==
    /\ isRunning(w) /\ workers[w].pc = "exit"
    /\ workers' = [workers EXCEPT ![w].state = "finished"]
    /\ UNCHANGED <<events, convolution_processor>>
    /\ WorkerFrame

run ==
    \E w \in WorkerIds :
        \/ RunEmitStarted(w)
        \/ RunProcess(w)
        \/ RunEmitDone(w)
        \/ RunEmitResult(w)
        \/ RunReturn(w)

(***************************************************************************)
(* The main thread takes the queued signal at the head of its event queue  *)
(* and calls the slot connected to it.                                     *)
(***************************************************************************)
Delivered(sig) ==
    /\ ~aborted
    /\ events # <<>>
    /\ Head(events).sig = sig
    /\ events' = Tail(events)

DeliveryFrame ==
    UNCHANGED <<current_ir, current_di, convolution_processor, convolution_worker,
                _preserve_position, _saved_position, _was_playing, mix_slider,
                mix_debounce_timer, volume_slider, equalizer_dialog, workers,
                is_looping, aborted, quiet, burst, ctl>>

on_convolution_progress ==
    /\ Delivered("progress")
    /\ progress_bar' = [progress_bar EXCEPT !.value = Head(events).value]
    /\ UNCHANGED <<win_is_playing, position_timer, header_raw_audio, shared, eq_failed,
                   current_sample_rate>>
    /\ UNCHANGED <<engineVars, hostVars>>
    /\ DeliveryFrame

\* an error slot that also stops playback
ErrorStopsPlayback ==
    /\ Delivered("error")
    /\ \A s \in StreamIds : cb[s].pc = "idle"
    /\ progress_bar' = [progress_bar EXCEPT !.visible = FALSE]
    /\ _is_playing' = FALSE
    /\ _is_paused' = FALSE
    /\ position' = 0
    /\ stream' = NoStream
    /\ streams' = [s \in StreamIds |-> "closed"]
    /\ UNCHANGED <<audio_data, sample_rate, volume, cb, outdata>>
    /\ UNCHANGED <<win_is_playing, position_timer, header_raw_audio, shared, eq_failed,
                   current_sample_rate>>
    /\ DeliveryFrame

on_convolution_error ==
    /\ Delivered("error")
    /\ progress_bar' = [progress_bar EXCEPT !.visible = FALSE]
    /\ UNCHANGED <<win_is_playing, position_timer, header_raw_audio, shared, eq_failed,
                   current_sample_rate>>
    /\ UNCHANGED <<engineVars, hostVars>>
    /\ DeliveryFrame

\* update_equalization(gains) after load_audio(raw, rate): the buffer the
\* engine holds afterwards
update_equalization(raw, rate, gains) ==
    LET processed_audio == process_frame(raw, rate, gains)
    IN  IF equalizer_dialog.btn_enable /\ processed_audio.ok
        THEN AsFloat32(processed_audio.audio)
        ELSE AsFloat32(raw)

\* a delivery that never seeks: the cursor stays where stop() left it
RestoredAtStart(raw, rate, buf) == 0

\* lines 840-844: the cursor after the conditional seek, 0 without it
RestoredPosition(raw, rate, buf) ==
    LET duration == Rat(Len(raw), rate)
        seek_pos == RatMin(_saved_position, RatSub(duration, Rat(1, 10)))
    IN  IF /\ _preserve_position
           /\ RatLess(Rat(0, 1), _saved_position)
           /\ RatLess(Rat(0, 1), seek_pos)
        THEN SeekSamples(seek_pos, rate, Len(buf))
        ELSE 0

\* the whole slot: stop, load_audio, update_equalization, seek, set_volume
\* and play run on the main thread, entered between two callback invocations
on_convolution_finished ==
    /\ Delivered("finished")
    /\ \A s \in StreamIds : cb[s].pc = "idle"
    /\ LET raw == Head(events).audio
           rate == Head(events).rate
           buf == update_equalization(raw, rate, equalizer_dialog.current_gains)
           stopped == IF stream = NoStream THEN streams
                      ELSE [streams EXCEPT ![stream] = "closed"]
       IN  /\ progress_bar' = [progress_bar EXCEPT !.visible = FALSE]
           /\ header_raw_audio' = raw
           /\ shared' = (equalizer_dialog.btn_enable
                          /\ \A i \in 1..10 : equalizer_dialog.current_gains[i] = 0)
           /\ eq_failed' = (IF equalizer_dialog.btn_enable
                            THEN ~process_frame(raw, rate, equalizer_dialog.current_gains).ok
                            ELSE eq_failed)
           /\ current_sample_rate' = rate
           /\ audio_data' = buf
           /\ sample_rate' = rate
           /\ position' = RestoredPosition(raw, rate, buf)
           /\ volume' = ClampVolume(volume_slider \div 10)
           /\ _is_paused' = FALSE
           /\ IF _was_playing
              THEN /\ \E outcome \in {"started", "open_failed", "start_failed"} :
                        /\ stream' = (IF outcome = "open_failed" THEN NoStream
                                      ELSE NewStreamIn(stopped))
                        /\ streams' = (IF outcome = "open_failed" THEN stopped
                                       ELSE [stopped EXCEPT ![NewStreamIn(stopped)] =
                                               IF outcome = "started" THEN "active"
                                               ELSE "inactive"])
                        /\ _is_playing' = (outcome = "started")
                   /\ win_is_playing' = TRUE
                   /\ position_timer' = TRUE
              ELSE /\ stream' = NoStream
                   /\ streams' = stopped
                   /\ _is_playing' = FALSE
                   /\ win_is_playing' = FALSE
                   /\ UNCHANGED position_timer
    /\ UNCHANGED <<cb, outdata>>
    /\ DeliveryFrame

(***************************************************************************)
(* The equalizer dialog's slots and the slots of MainWindow connected to   *)
(* its signals; the connections are direct, so a slot of the window runs   *)
(* inside the dialog's slot, on the main thread.                           *)
(***************************************************************************)
\* the bands whose slider the user moves, and the values it is moved to (dB)
EqBands == {1, 10}
GainInputs == {0, 6}

\* an equalizer that filters the raw array in place: the window's raw buffer
\* holds afterwards what the engine was given
EqFrameInPlace ==
    /\ header_raw_audio' = (IF header_raw_audio # None /\ equalizer_dialog'.btn_enable
                            THEN audio_data' ELSE header_raw_audio)
    /\ UNCHANGED <<current_ir, current_di, convolution_processor, convolution_worker,
                   _preserve_position, _saved_position, _was_playing, win_is_playing,
                   is_looping, mix_slider, mix_debounce_timer, volume_slider, progress_bar,
                   position_timer, current_sample_rate, workers, events,
                   aborted, quiet, burst, ctl>>

EqFrame ==
    UNCHANGED <<current_ir, current_di, convolution_processor, convolution_worker,
                _preserve_position, _saved_position, _was_playing, win_is_playing,
                is_looping, mix_slider, mix_debounce_timer, volume_slider, progress_bar,
                position_timer, header_raw_audio, current_sample_rate, workers, events,
                aborted, quiet, burst, ctl>>

\* gains_changed.emit(gains): MainWindow.update_equalization(gains) runs
\* before emit returns.  With all gains 0 process_frame returns the raw array
\* itself, which update_audio then binds as it is.
gains_changed(gains) ==
    LET processed_audio == process_frame(header_raw_audio, current_sample_rate, gains)
    IN  IF equalizer_dialog'.btn_enable /\ header_raw_audio # None
        THEN IF processed_audio.ok
             THEN /\ UpdateAudio(processed_audio.audio)
                  /\ shared' = (\A i \in 1..10 : gains[i] = 0)
                  /\ eq_failed' = FALSE
             ELSE /\ UNCHANGED <<engineVars, hostVars, shared>>
                  /\ eq_failed' = TRUE
        ELSE UNCHANGED <<engineVars, hostVars, shared, eq_failed>>

\* an on_eq_toggled that does nothing when the equalizer is switched off
EqToggleOffIgnored(enabled) ==
    IF header_raw_audio = None \/ ~enabled
    THEN UNCHANGED <<engineVars, hostVars, shared, eq_failed>>
    ELSE gains_changed(equalizer_dialog'.current_gains)

\* MainWindow.on_eq_toggled(enabled)
on_eq_toggled(enabled) ==
    IF header_raw_audio = None
    THEN UNCHANGED <<engineVars, hostVars, shared, eq_failed>>
    ELSE IF enabled
         THEN gains_changed(equalizer_dialog'.current_gains)
         ELSE /\ UpdateAudio(header_raw_audio)
              /\ shared' = TRUE
              /\ UNCHANGED eq_failed

\* EqualizerDialog.on_slider_changed: an enabled band slider moves to another
\* value
on_slider_changed ==
    \E index \in EqBands, value \in GainInputs :
        /\ ~aborted
        /\ \A s \in StreamIds : cb[s].pc = "idle"
        /\ equalizer_dialog.btn_enable
        /\ value # equalizer_dialog.current_gains[index]
        /\ equalizer_dialog' = [equalizer_dialog EXCEPT !.current_gains[index] = value]
        /\ gains_changed(equalizer_dialog'.current_gains)
        /\ EqFrame

\* EqualizerDialog.reset_flat
reset_flat ==
    /\ ~aborted
    /\ \A s \in StreamIds : cb[s].pc = "idle"
    /\ equalizer_dialog' = [equalizer_dialog EXCEPT !.current_gains = FlatGains]
    /\ gains_changed(FlatGains)
    /\ EqFrame

\* the lists gains_changed can carry: the signal is declared pyqtSignal(list)
GainLists ==
    {FlatGains,
     [i \in 1..10 |-> IF i = 1 THEN 6 ELSE 0],
     <<>>,
     [i \in 1..9 |-> 0],
     [i \in 1..9 |-> 6],
     [i \in 1..11 |-> 0]}

\* MainWindow.update_equalization(gains) called with any list
update_equalization_called ==
    \E gains \in GainLists :
        /\ ~aborted
        /\ \A s \in StreamIds : cb[s].pc = "idle"
        /\ UNCHANGED equalizer_dialog
        /\ gains_changed(gains)
        /\ EqFrame

\* EqualizerDialog.on_toggled: the enable button is clicked
on_toggled ==
    \E checked \in BOOLEAN :
        /\ ~aborted
        /\ \A s \in StreamIds : cb[s].pc = "idle"
        /\ checked # equalizer_dialog.btn_enable
        /\ equalizer_dialog' = [equalizer_dialog EXCEPT !.btn_enable = checked]
        /\ on_eq_toggled(checked)
        /\ EqFrame

(***************************************************************************)
(* MainWindow.on_loop_toggled / MainWindow.update_position                 *)
(***************************************************************************)
TransportFrame ==
    UNCHANGED <<current_ir, current_di, convolution_processor, convolution_worker,
                _preserve_position, _saved_position, _was_playing, mix_slider,
                mix_debounce_timer, volume_slider, progress_bar, header_raw_audio, shared,
                eq_failed,
                current_sample_rate, equalizer_dialog, workers, events, aborted, quiet, burst,
                ctl>>

\* the loop button is toggled
on_loop_toggled ==
    /\ ~aborted
    /\ is_looping' = ~is_looping
    /\ UNCHANGED <<win_is_playing, position_timer>>
    /\ UNCHANGED <<engineVars, hostVars>>
    /\ TransportFrame

\* a restart that calls play() without seeking to 0 first
RestartWithoutSeek ==
    LET stopped == IF stream = NoStream THEN streams
                   ELSE [streams EXCEPT ![stream] = "closed"]
    IN  /\ _is_paused' = FALSE
        /\ stream' = NewStreamIn(stopped)
        /\ streams' = [stopped EXCEPT ![NewStreamIn(stopped)] = "active"]
        /\ _is_playing' = TRUE
        /\ UNCHANGED <<audio_data, sample_rate, position, volume, cb, outdata>>

\* lines 912-915: self.audio_engine.seek(0); self.audio_engine.play()
Restart ==
    LET stopped == IF stream = NoStream THEN streams
                   ELSE [streams EXCEPT ![stream] = "closed"]
    IN  /\ position' = (IF sample_rate = NoRate THEN position
                        ELSE SeekSamples(Rat(0, 1), sample_rate, Len(audio_data)))
        /\ _is_paused' = FALSE
        /\ \E outcome \in {"started", "open_failed", "start_failed"} :
              /\ stream' = (IF outcome = "open_failed" THEN NoStream
                            ELSE NewStreamIn(stopped))
              /\ streams' = (IF outcome = "open_failed" THEN stopped
                             ELSE [stopped EXCEPT ![NewStreamIn(stopped)] =
                                     IF outcome = "started" THEN "active" ELSE "inactive"])
              /\ _is_playing' = (outcome = "started")
        /\ UNCHANGED <<audio_data, sample_rate, volume, cb, outdata>>

\* an end of playback that leaves the window playing and the timer running
StayPlayingAtEnd ==
    /\ UNCHANGED <<win_is_playing, position_timer>>
    /\ UNCHANGED <<engineVars, hostVars>>

\* lines 917-919: self.is_playing = False; self.position_timer.stop()
StopAtEnd ==
    /\ win_is_playing' = FALSE
    /\ position_timer' = FALSE
    /\ UNCHANGED <<engineVars, hostVars>>

\* the position timer's timeout, taken between two callback invocations; the
\* slider and the time label it refreshes are not part of the state
update_position ==
    /\ ~aborted
    /\ position_timer
    /\ \A s \in StreamIds : cb[s].pc = "idle"
    /\ IF has_audio /\ ~is_playing /\ win_is_playing
       THEN IF is_looping
            THEN Restart /\ UNCHANGED <<win_is_playing, position_timer>>
            ELSE StopAtEnd
       ELSE /\ UNCHANGED <<win_is_playing, position_timer>>
            /\ UNCHANGED <<engineVars, hostVars>>
    /\ UNCHANGED is_looping
    /\ TransportFrame

(***************************************************************************)
(* The shell: the main thread's handlers, the worker threads and the host  *)
(* audio thread                                                            *)
(***************************************************************************)
\* one whole invocation of the stream callback (lines 61-100) on stream s,
\* run between two handlers of the main thread: the block it leaves is taken
\* by the host, the cursor and the playing flag are what it stores
Playback ==
    \E s \in StreamIds :
        /\ streams[s] = "active"
        /\ cb[s].pc = "idle"
        /\ ~_is_paused /\ _is_playing /\ audio_data # None
        /\ IF position >= Len(audio_data)
           THEN _is_playing' = FALSE /\ UNCHANGED position
           ELSE position' = Min(position + Frames, Len(audio_data)) /\ UNCHANGED _is_playing
        /\ UNCHANGED <<audio_data, sample_rate, volume, _is_paused, stream>>
        /\ UNCHANGED <<hostVars, ctl, shellVars>>

(***************************************************************************)
(* The engine with its controller thread and the host audio thread         *)
(***************************************************************************)
vars == <<engineVars, hostVars, ctl, shellVars>>

Init ==
    /\ EngineInit
    /\ HostInit
    /\ ctl = IdleCtl
    /\ ShellInit

ControllerStep ==
    \/ stop
    \/ load_audio
    \/ update_audio
    \/ play
    \/ pause
    \/ resume
    \/ seek
    \/ seek_relative
    \/ set_volume
    \/ Return

Next ==
    \/ ControllerStep /\ UNCHANGED shellVars
    \/ callback /\ UNCHANGED shellVars

Spec == Init /\ [][Next]_vars

\* the mix slider is moved once, from the position it starts at
ShellNext ==
    \/ on_ir_selected
    \/ on_di_selected
    \/ on_mix_changed /\ mix_slider = 100
    \/ _on_mix_debounced
    \/ Quiescence
    \/ run
    \/ on_convolution_progress
    \/ on_convolution_finished
    \/ on_convolution_error
    \/ Playback

SpecShell == Init /\ [][ShellNext]_vars

(***************************************************************************)
(* Looped playback: the shell loads a result and starts playback, the      *)
(* host keeps invoking the callback and the position timer keeps firing.   *)
(* The files the user selects are ones that load.                          *)
(***************************************************************************)
LoopNext ==
    \/ on_ir_selected /\ ~aborted'
    \/ on_di_selected /\ ~aborted'
    \/ run
    \/ on_convolution_progress
    \/ on_convolution_finished
    \/ on_convolution_error
    \/ Playback
    \/ update_position
    \/ on_loop_toggled

(***************************************************************************)
(* The mix slider: the user selects an IR and a DI that load, once each,   *)
(* and moves the slider while 100 ms steps of time pass; the tasks run and  *)
(* their results are loaded.                                               *)
(***************************************************************************)
MixNext ==
    \/ on_ir_selected /\ ~aborted' /\ current_ir = NoPath
    \/ on_di_selected /\ ~aborted' /\ current_di = NoPath
    \/ on_mix_changed
    \/ Tick
    \/ _on_mix_debounced
    \/ run
    \/ on_convolution_progress
    \/ on_convolution_finished
    \/ on_convolution_error

SpecMix == Init /\ [][MixNext]_vars

(***************************************************************************)
(* The equalizer: the user selects an IR and a DI that load, once each,    *)
(* the task runs, its result is loaded and played, and the user works the  *)
(* equalizer dialog.                                                       *)
(***************************************************************************)
EqNext ==
    \/ on_ir_selected /\ ~aborted' /\ current_ir = NoPath
    \/ on_di_selected /\ ~aborted' /\ current_di = NoPath
    \/ run
    \/ on_convolution_progress
    \/ on_convolution_finished
    \/ on_convolution_error
    \/ Playback
    \/ on_slider_changed
    \/ reset_flat
    \/ on_toggled

SpecEq == Init /\ [][EqNext]_vars

\* the same, with update_equalization also called with lists of any length
GainsNext ==
    \/ EqNext
    \/ update_equalization_called

SpecGains == Init /\ [][GainsNext]_vars

(***************************************************************************)
(* One convolution task on a processor in each of the states load_ir and   *)
(* load_di leave it in: an asset never loaded, loaded from a file that     *)
(* decodes, or cleared by a file that does not; the task was started with  *)
(* the mix slider at one of three positions.                               *)
(***************************************************************************)
MixPositions == {0, 50, 100}

ProcessInit ==
    /\ EngineInit
    /\ HostInit
    /\ ctl = IdleCtl
    /\ \E ir \in AllIRPaths \cup {NoPath}, di \in AllDIPaths \cup {NoPath}, mix \in MixPositions :
          /\ current_ir = ir
          /\ current_di = di
          /\ convolution_processor =
                LET with_ir == IF ir = NoPath THEN ProcessorInit
                               ELSE load_ir(ProcessorInit, ir)
                IN  IF di = NoPath THEN with_ir ELSE load_di(with_ir, di)
          /\ mix_slider = mix
          /\ workers = [w \in WorkerIds |->
                          IF w = 1 THEN [NewWorker EXCEPT !.state = "running",
                                                          !.wet_mix = mix]
                          ELSE NewWorker]
    /\ convolution_worker = 1
    /\ _preserve_position = FALSE
    /\ _saved_position = Rat(0, 1)
    /\ _was_playing = TRUE
    /\ win_is_playing = FALSE
    /\ is_looping = TRUE
    /\ mix_debounce_timer = StoppedTimer
    /\ volume_slider = 80
    /\ progress_bar = [value |-> 0, visible |-> TRUE]
    /\ position_timer = FALSE
    /\ header_raw_audio = None
    /\ shared = FALSE
    /\ eq_failed = FALSE
    /\ current_sample_rate = 44100
    /\ equalizer_dialog = [btn_enable |-> TRUE, current_gains |-> FlatGains]
    /\ events = <<>>
    /\ aborted = FALSE
    /\ quiet = DebounceInterval
    /\ burst = 0

ProcessNext ==
    \/ run
    \/ on_convolution_progress
    \/ on_convolution_finished
    \/ on_convolution_error
    \/ Playback

SpecProcess == ProcessInit /\ [][ProcessNext]_vars

(***************************************************************************)
(* A task's process() running beside on_ir_selected: the worker thread     *)
(* reads the processor's fields one statement at a time while the main     *)
(* thread, inside the slot, has load_ir assign them before                 *)
(* process_and_play terminates the worker.                                 *)
(***************************************************************************)
\* process(), lines 99-104: the test for None and ir_resampled = self.ir_data
ProcessReadIR(w) ==
    /\ isRunning(w) /\ workers[w].pc = "run_29"
    /\ workers' = (IF \/ convolution_processor.ir_data = NoData
                      \/ convolution_processor.di_data = NoData
                   THEN [workers EXCEPT ![w].pc = "run_31"]
                   ELSE [workers EXCEPT ![w].pc = "process_105",
                                        ![w].ir_resampled = convolution_processor.ir_data])
    /\ UNCHANGED <<events, convolution_processor>>
    /\ WorkerFrame

\* process(), lines 105-145: the rates are compared; when they differ the IR
\* is read again and resampled, when they are equal the array read at line
\* 104 is convolved as it is
ProcessConvolve(w) ==
    /\ isRunning(w) /\ workers[w].pc = "process_105"
    /\ LET proc == convolution_processor
           read == IF proc.ir_sample_rate # proc.di_sample_rate THEN proc
                   ELSE [proc EXCEPT !.ir_data = workers[w].ir_resampled]
           r == process(read, workers[w].wet_mix)
       IN  /\ workers' = [workers EXCEPT ![w].pc = "run_31",
                                         ![w].audio_data = r.audio_data,
                                         ![w].sample_rate = r.sample_rate]
           /\ convolution_processor' =
                  [proc EXCEPT !.last_result = r.proc.last_result,
                               !.last_sample_rate = r.proc.last_sample_rate]
    /\ UNCHANGED events
    /\ WorkerFrame

\* on_ir_selected, lines 754-755: current_ir is set and load_ir returns
IrSelectedLoad ==
    \E filepath \in AllIRPaths :
        /\ ~aborted /\ ctl = IdleCtl
        /\ current_ir' = filepath
        /\ convolution_processor' = load_ir(convolution_processor, filepath)
        /\ IF LoadOk(filepath)
           THEN ctl' = At("on_ir_selected", "process_and_play") /\ UNCHANGED aborted
           ELSE aborted' = TRUE /\ UNCHANGED ctl
        /\ UNCHANGED <<_preserve_position, _saved_position, _was_playing, progress_bar,
                       workers, convolution_worker>>
        /\ UNCHANGED <<current_di, mix_slider, mix_debounce_timer, quiet, burst>>
        /\ UNCHANGED <<win_is_playing, is_looping, volume_slider, position_timer,
                       header_raw_audio, shared, eq_failed,
                       current_sample_rate, equalizer_dialog, events>>
        /\ UNCHANGED <<engineVars, hostVars>>

\* on_ir_selected, lines 756-760: the label and the plot are updated and
\* process_and_play(preserve_position=True) terminates the running task
IrSelectedProcess ==
    /\ ctl.op = "on_ir_selected"
    /\ process_and_play(current_ir, current_di, TRUE)
    /\ ctl' = IdleCtl
    /\ UNCHANGED <<current_ir, current_di, convolution_processor, aborted,
                   mix_slider, mix_debounce_timer, quiet, burst>>
    /\ UNCHANGED <<win_is_playing, is_looping, volume_slider, position_timer,
                   header_raw_audio, shared, eq_failed,
                   current_sample_rate, equalizer_dialog, events>>
    /\ UNCHANGED <<engineVars, hostVars>>

RaceNext ==
    \/ IrSelectedLoad /\ ~aborted' /\ \E w \in WorkerIds : workers[w].state = "unstarted"
    \/ IrSelectedProcess
    \/ \E w \in WorkerIds :
          \/ RunEmitStarted(w)
          \/ ProcessReadIR(w)
          \/ ProcessConvolve(w)
          \/ RunEmitDone(w)
          \/ RunEmitResult(w)
          \/ RunReturn(w)
    \/ ctl = IdleCtl /\ on_convolution_progress
    \/ ctl = IdleCtl /\ on_convolution_finished
    \/ ctl = IdleCtl /\ on_convolution_error

SpecRace == ProcessInit /\ [][RaceNext]_vars

\* a timer tick on which the output device opens and the stream starts
TimerRestarts == update_position /\ _is_playing'

SpecLoop ==
    /\ Init
    /\ [][LoopNext]_vars
    /\ WF_vars(Playback)
    /\ WF_vars(update_position)
    /\ WF_vars(TimerRestarts)

(***************************************************************************)
(* Properties of the convolution pipeline                                  *)
(***************************************************************************)
\* C1: whenever the finished signal of a worker is delivered to
\* on_convolution_finished, that worker is the one process_and_play started
\* last: no completion of a superseded task is delivered after a newer task
\* was started.
SupersededNeverDelivered ==
    [][Delivered("finished") => Head(events).worker = convolution_worker]_vars

\* C2: in every reachable state at most one convolution worker is running.
AtMostOneRunning == Cardinality({w \in WorkerIds : isRunning(w)}) <= 1

\* process_and_play found the previous worker running, terminated it and
\* started the next one
PreviousTerminatedNextRunning ==
    \E v, w \in WorkerIds :
        /\ v < w
        /\ workers[v].state = "terminated"
        /\ convolution_worker = w
        /\ isRunning(w)

(***************************************************************************)
(* Properties of the playback engine                                       *)
(***************************************************************************)
AtBoundary == ctl.pc \in {"idle", "ret"}
Returned(op) == ctl.op = op /\ ctl.pc = "ret"
OpenStreams == { s \in StreamIds : streams[s] # "closed" }

\* C3: between engine calls the cursor is at most the length of the active
\* buffer, and the callback copies only samples at indices 0..length-1 of the
\* buffer it read.
CursorWithinBuffer ==
    /\ (AtBoundary /\ has_audio) => position <= Len(audio_data)
    /\ \A s \in StreamIds :
          cb[s].pc = "cb_84" =>
             /\ 0 <= cb[s].pos
             /\ cb[s].pos < Len(cb[s].audio)
             /\ Min(cb[s].pos + Frames, cb[s].audio_len) <= Len(cb[s].audio)

\* C4: when stop() returns no stream is held or open, the cursor is 0 and the
\* playing and paused flags are clear.
StopPostState ==
    Returned("stop") =>
        /\ stream = NoStream
        /\ OpenStreams = {}
        /\ position = 0
        /\ ~_is_playing
        /\ ~_is_paused

\* C5: a seek made during playback is not lost: when the callback invocation
\* overlapping a completed seek stores the cursor, the cursor becomes the seek
\* target or the seek target advanced by that block.
SeekNotLost ==
    [][\A s \in StreamIds :
          (/\ Returned("seek") /\ has_audio /\ sample_rate # NoRate
           /\ cb[s].pc = "cb_90" /\ cb'[s].pc = "ret")
          => LET target == SeekTarget([num |-> ctl.num, den |-> ctl.den])
             IN  position' \in {target, Min(target + Frames, cb[s].audio_len)}]_vars

\* C6: between engine calls the engine is Stopped, Playing or Paused, never
\* 'paused set, playing clear', and stop() leaves it Stopped.
EngineStateValid ==
    /\ AtBoundary => ~(_is_paused /\ ~_is_playing)
    /\ Returned("stop") => (~_is_playing /\ ~_is_paused)

\* C7: when load_audio(buffer, sampleRate) returns no stream is held, open or
\* running a callback, the engine is Stopped, the active buffer and the sample
\* rate are the new ones and the cursor is 0; no step of load_audio changes the
\* volume.
LoadAudioPostState ==
    [][/\ (ctl'.op = "load_audio" /\ ctl'.pc = "ret") =>
            /\ stream' = NoStream
            /\ \A s \in StreamIds : streams'[s] = "closed" /\ cb'[s].pc = "idle"
            /\ ~_is_playing' /\ ~_is_paused'
            /\ audio_data' = ctl'.buf
            /\ sample_rate' = ctl'.rate
            /\ position' = 0
       /\ (ctl.op = "load_audio" \/ ctl'.op = "load_audio") => volume' = volume]_vars

LoadAudioReturned ==
    /\ Returned("load_audio")
    /\ audio_data = ctl.buf /\ Len(audio_data) = MaxLen
    /\ sample_rate = 2
    /\ volume = 5

\* C8: update_audio(buffer) binds the new buffer and changes nothing else:
\* cursor, sample rate, volume, flags and stream stay as they were.
UpdateAudioFrame ==
    [][(ctl.pc = "idle" /\ ctl'.op = "update_audio") =>
            /\ audio_data' = ctl'.buf
            /\ UNCHANGED <<sample_rate, position, volume, _is_playing, _is_paused,
                           stream, streams>>]_vars

UpdateAudioWhilePlaying ==
    /\ Returned("update_audio")
    /\ audio_data = ctl.buf
    /\ is_playing /\ stream # NoStream /\ streams[stream] = "active"
    /\ position > 0

\* C9: an invocation takes the buffer that is published when it reads the
\* reference, and the length it checks and every sample it emits come from that
\* one buffer, whatever is published meanwhile.
CallbackSingleRead ==
    [][\A s \in StreamIds :
          /\ (cb[s].pc = "cb_70" /\ cb'[s].pc = "cb_76") =>
                 cb'[s].audio = audio_data /\ cb'[s].audio_len = Len(audio_data)
          /\ (cb[s].pc = "cb_84" /\ cb'[s].pc = "cb_90") =>
                 /\ cb[s].audio_len = Len(cb[s].audio)
                 /\ \A k \in 1..Frames :
                       outdata'[s][k] = IF cb[s].pos + k <= Len(cb[s].audio)
                                        THEN cb[s].audio[cb[s].pos + k] * volume
                                        ELSE 0]_vars

SwappedDuringCallback ==
    \E s \in StreamIds :
        /\ cb[s].pc = "cb_90"
        /\ audio_data # cb[s].audio
        /\ Len(audio_data) < cb[s].audio_len
        /\ outdata[s][1] # 0

\* C10: at most one stream is open, it is the one the engine holds, and only it
\* runs the callback; no step of play() changes the cursor.
PlayPcs == {"play_50", "play_58", "play_59", "play_103"}
SingleStream ==
    [][/\ Cardinality({ s \in StreamIds : streams'[s] # "closed" }) <= 1
       /\ \A s \in StreamIds : streams'[s] # "closed" => s = stream'
       /\ \A s \in StreamIds : cb'[s].pc # "idle" => s = stream'
       /\ (ctl' # ctl /\ (ctl.pc \in PlayPcs \/ ctl'.op = "play")) =>
              position' = position]_vars

PlayReplacedStream ==
    /\ ctl.op = "play" /\ ctl.pc = "play_58"
    /\ _is_playing
    /\ OpenStreams = {}
    /\ position > 0

\* C11 as written: while the engine is paused or not playing, no step of a
\* callback invocation moves the cursor or puts samples other than silence
\* into the block, so resume() finds the cursor where pause() left it.
PausedCursorFrozen ==
    [][\A s \in StreamIds :
          ((_is_paused \/ ~_is_playing) /\ cb'[s] # cb[s]) =>
              /\ position' = position
              /\ outdata'[s] # outdata[s] => outdata'[s] \in {<<>>, Silence}]_vars

\* C11: pause() sets the paused flag and changes nothing else (no stream is
\* stopped, the cursor stays); an invocation whose check at line 66 finds the
\* engine paused or not playing emits a block of silence and returns without
\* storing the cursor; resume() from Paused clears the paused flag and changes
\* nothing else; the callback moves the cursor only at the store of an
\* invocation that passed that check.
PauseResumeFrame ==
    [][/\ (ctl.pc = "idle" /\ ctl'.op = "pause") =>
            /\ _is_paused'
            /\ UNCHANGED <<audio_data, sample_rate, position, volume, _is_playing,
                           stream, streams, cb>>
       /\ (ctl.pc = "idle" /\ ctl'.op = "resume" /\ _is_paused /\ _is_playing) =>
            /\ ctl'.pc = "resume_123"
            /\ UNCHANGED <<engineVars, streams>>
       /\ (ctl.pc = "resume_123" /\ ctl' # ctl) =>
            /\ ~_is_paused'
            /\ ctl'.pc = "ret"
            /\ UNCHANGED <<audio_data, sample_rate, position, volume, _is_playing,
                           stream, streams>>
       /\ \A s \in StreamIds :
            /\ (cb[s].pc = "idle" /\ cb'[s].pc # "idle" /\ _is_paused) =>
                  cb'[s].pc = "ret" /\ outdata'[s] = Silence /\ position' = position
            /\ (cb[s].pc = "cb_66" /\ cb'[s].pc # "cb_66" /\ ~_is_playing) =>
                  cb'[s].pc = "ret" /\ outdata'[s] = Silence /\ position' = position
            /\ (cb[s].pc = "ret" /\ cb'[s].pc = "idle") => position' = position
            /\ (cb'[s] # cb[s] /\ position' # position) => cb[s].pc = "cb_90"]_vars

\* resume() is about to clear the paused flag of a running stream whose
\* callback has just emitted silence, the cursor inside the buffer
ResumingFromPaused ==
    /\ ctl.op = "resume" /\ ctl.pc = "resume_123"
    /\ stream # NoStream /\ streams[stream] = "active"
    /\ cb[stream].pc = "ret" /\ outdata[stream] = Silence
    /\ position > 0 /\ position < Len(audio_data)

\* C12: called on a fully stopped engine (playing flag clear, no stream held),
\* resume() does what play() does: with a buffer loaded it enters play() at
\* its first statement with the engine untouched, with none it returns with
\* the engine untouched; and every statement of play() has the same effect
\* whether play() or resume() is the caller.
PlaySteps == PlayStopPrevious \/ PlaySetPlaying \/ PlayClearPaused \/ PlayOpenStream
ResumeStoppedIsPlay ==
    [][/\ (ctl.pc = "idle" /\ ctl'.op = "resume" /\ ~_is_playing /\ stream = NoStream) =>
            /\ ctl'.pc = (IF has_audio THEN "play_50" ELSE "ret")
            /\ [ctl' EXCEPT !.op = "play"] = At("play", IF has_audio THEN "play_50" ELSE "ret")
            /\ UNCHANGED <<engineVars, hostVars>>
       /\ (ctl.pc = "idle" /\ ctl'.op = "play") =>
            /\ ctl' = At("play", IF has_audio THEN "play_50" ELSE "ret")
            /\ UNCHANGED <<engineVars, hostVars>>
       /\ (ctl.op = "resume" /\ ctl.pc \in PlayPcs /\ ctl' # ctl) =>
            /\ PlaySteps
            /\ ctl'.op = "resume"]_vars

\* resume() was called on a stopped engine holding a buffer and has opened
\* and started a stream
ResumeStartedStream ==
    /\ Returned("resume")
    /\ _is_playing /\ ~_is_paused
    /\ stream # NoStream /\ streams[stream] = "active"
    /\ cb[stream].pc = "idle" /\ position = 0

\* C13: the invocation that finds the cursor at or past the end of the buffer
\* emits silence, clears the playing flag and has the host stop the stream
\* after this block: the stream is no longer running when the invocation
\* returns, and the host starts an invocation on running streams only.
FinishedStopsStream ==
    [][\A s \in StreamIds :
          /\ (cb[s].pc = "cb_81" /\ cb'[s].pc = "ret") =>
                /\ outdata'[s] = Silence
                /\ ~_is_playing'
                /\ streams'[s] # "active"
          /\ (cb[s].pc = "idle" /\ cb'[s].pc # "idle") => streams[s] = "active"]_vars

\* C14: in playback that nothing interrupts (the cursor and the buffer are
\* still the ones the invocation read), every invocation that plays a block
\* moves the cursor forward by the block size, stopping at the buffer length:
\* the cursor strictly increases and never exceeds the length.
CursorAdvancesByBlock ==
    [][\A s \in StreamIds :
          (/\ cb[s].pc = "cb_90" /\ cb'[s].pc = "ret"
           /\ position = cb[s].pos /\ audio_data = cb[s].audio) =>
              /\ position' = Min(position + Frames, Len(audio_data))
              /\ position' > position
              /\ position' <= Len(audio_data)]_vars

\* the invocation after a full block has stored the cursor of the last,
\* shorter block of the longest buffer
LastBlockStored ==
    \E s \in StreamIds :
        /\ cb[s].pc = "ret"
        /\ cb[s].audio = audio_data /\ cb[s].audio_len = MaxLen
        /\ cb[s].pos = Frames
        /\ position = MaxLen
        /\ _is_playing /\ ~_is_paused

(***************************************************************************)
(* Properties of looped playback                                           *)
(***************************************************************************)
\* playback the shell started has run to the end of the buffer
AtEnd == win_is_playing /\ has_audio /\ position >= Len(audio_data)
\* the engine is Playing from cursor 0 on a running stream
Restarted ==
    /\ is_playing /\ position = 0
    /\ stream # NoStream /\ streams[stream] = "active"

Settled == ~is_playing /\ ~_is_playing /\ ~win_is_playing /\ ~position_timer

\* C16: with loop disabled, whenever playback started by the shell has reached
\* the end of the buffer the engine and the window eventually are in the
\* non-playing state (unless the loop is switched on meanwhile), and from then
\* on the cursor, the flags and the timer stay as they are, the callback
\* emitting nothing but silence, until a result the user asked for is loaded.
LoopOffSettles ==
    /\ (AtEnd /\ ~is_looping) ~> (Settled \/ is_looping)
    /\ [][(Settled /\ ~Delivered("finished")) =>
              /\ Settled'
              /\ UNCHANGED <<audio_data, position, stream, streams>>]_vars

\* playback ended with the loop off and the timer tick has cleared the
\* window's flag; the stream is still running
SettledAtEnd ==
    /\ Settled /\ ~is_looping
    /\ has_audio /\ position >= Len(audio_data) /\ position > 0
    /\ stream # NoStream /\ streams[stream] = "active"

(***************************************************************************)
(* Properties of seek and seek_relative                                    *)
(***************************************************************************)
\* the sample index int(seconds * sample_rate) of a seek to t
TargetIndex(t) == Trunc(t.num * sample_rate, t.den)
\* the steps that store the cursor: line 149 reached from seek, and from
\* seek_relative through line 158
SeekStep == ctl.pc = "idle" /\ ctl'.op = "seek"
SeekRelativeStep == ctl.pc = "seek_147" /\ ctl'.pc = "ret"

ExceptionsStayInCallback ==
    [][\A s \in StreamIds :
          /\ (cb[s].pc = "cb_81" /\ cb'[s] # cb[s]) =>
                /\ cb'[s].pc = "ret"
                /\ outdata'[s] = Silence
          /\ cb'[s] # cb[s] => streams' = streams
          /\ (cb[s].pc # "idle" /\ cb'[s].pc = "idle") => cb[s].pc = "ret"]_vars

\* an invocation has raised at the end of the buffer and is returning a
\* silent block on a stream that is still running
RaisedAndReturning ==
    \E s \in StreamIds :
        /\ cb[s].pc = "ret" /\ cb[s].pos >= cb[s].audio_len
        /\ cb[s].audio # None /\ cb[s].audio_len > 0
        /\ outdata[s] = Silence
        /\ ~_is_playing
        /\ streams[s] = "active"

\* C19: when the stream cannot be opened or started, play() returns to its
\* caller with the playing and paused flags clear, no stream running, and
\* the buffer, the sample rate, the volume and the cursor as they were.
PlayFailureFallsBack ==
    [][(/\ ctl.pc = "play_103" /\ ctl' # ctl
        /\ (stream' = NoStream \/ streams'[stream'] # "active")) =>
            /\ ctl'.pc = "ret"
            /\ ~_is_playing' /\ ~_is_paused'
            /\ \A s \in StreamIds : streams'[s] # "active"
            /\ UNCHANGED <<audio_data, sample_rate, position, volume>>]_vars

\* play() has returned after start() failed on the stream it opened, the
\* cursor inside the buffer
PlayStartFailed ==
    /\ Returned("play")
    /\ has_audio /\ position > 0
    /\ ~_is_playing /\ ~_is_paused
    /\ stream # NoStream /\ streams[stream] = "inactive"

(***************************************************************************)
(* Properties of a failing convolution task                                *)
(***************************************************************************)
\* C20: a task whose process() gave no buffer posts the error signal and no
\* finished signal; delivering the error leaves the engine, the host and the
\* raw buffer the window keeps exactly as they were; and the engine's buffer
\* changes only when a finished signal is delivered, whose buffer is the
\* result its task computed.
FailedTaskLeavesEngine ==
    [][/\ Delivered("error") =>
            UNCHANGED <<engineVars, hostVars, header_raw_audio, current_sample_rate>>
       /\ \A w \in WorkerIds :
            (/\ workers[w].pc = "run_33" /\ workers'[w].pc = "exit"
             /\ workers[w].audio_data = None) =>
                /\ Len(events') = Len(events) + 1
                /\ events'[Len(events')].sig = "error"
                /\ events'[Len(events')].worker = w
                /\ events'[Len(events')].audio = None
       /\ audio_data' # audio_data =>
            /\ Delivered("finished")
            /\ Head(events).audio # None
            /\ Head(events).audio = workers[Head(events).worker].audio_data]_vars

\* the second task failed and its error was delivered while the engine goes
\* on playing the result of the first
ErrorDeliveredWhilePlaying ==
    \E w \in WorkerIds :
        /\ convolution_worker = w
        /\ workers[w].state = "finished" /\ workers[w].audio_data = None
        /\ events = <<>> /\ ~progress_bar.visible
        /\ has_audio /\ is_playing /\ position > 0
        /\ stream # NoStream /\ streams[stream] = "active"

(***************************************************************************)
(* Properties of a selection whose file does not load                      *)
(***************************************************************************)
\* C21: a selection whose file fails to load leaves the application running
\* (the failure does not take the shell down), clears the data and the rate
\* of the asset it was loading, leaves the other asset as it was, and starts
\* no convolution task.
LoadFailureContained ==
    [][/\ (on_ir_selected /\ ~LoadOk(current_ir')) =>
            /\ ~aborted'
            /\ convolution_processor'.ir_data = NoData
            /\ convolution_processor'.ir_sample_rate = NoRate
            /\ convolution_processor'.di_data = convolution_processor.di_data
            /\ convolution_processor'.di_sample_rate = convolution_processor.di_sample_rate
            /\ UNCHANGED <<workers, convolution_worker>>
       /\ (on_di_selected /\ ~LoadOk(current_di')) =>
            /\ ~aborted'
            /\ convolution_processor'.di_data = NoData
            /\ convolution_processor'.di_sample_rate = NoRate
            /\ convolution_processor'.ir_data = convolution_processor.ir_data
            /\ convolution_processor'.ir_sample_rate = convolution_processor.ir_sample_rate
            /\ UNCHANGED <<workers, convolution_worker>>]_vars

(***************************************************************************)
(* Properties of the events a convolution task reports                     *)
(***************************************************************************)
\* the events of worker w in the queue, oldest first
EventsOf(w) == SelectSeq(events, LAMBDA e : e.worker = w)
\* the step appends exactly the event e to the queue
Emits(w) ==
    /\ Len(events') = Len(events) + 1
    /\ SubSeq(events', 1, Len(events)) = events
    /\ events'[Len(events')].worker = w

\* C22: a task reports progress within 0..100 that never decreases, first
\* when run() starts (before process) and last when process has returned,
\* and then exactly one terminal event: finished with a non-empty buffer and
\* its sample rate, or error with no buffer; a task posts nothing else, and
\* nothing after its terminal event.
TaskEventsWellFormed ==
    [][\A w \in WorkerIds :
        LET e == events'[Len(events')]
        IN  /\ (workers'[w].pc # workers[w].pc /\ workers[w].pc = "run_27") =>
                /\ Emits(w) /\ e.sig = "progress" /\ e.value \in 0..100
                /\ workers'[w].pc = "run_29"
            /\ (workers'[w].pc # workers[w].pc /\ workers[w].pc = "run_29") =>
                /\ UNCHANGED events
                /\ workers'[w].pc = "run_31"
            /\ (workers'[w].pc # workers[w].pc /\ workers[w].pc = "run_31") =>
                /\ Emits(w) /\ e.sig = "progress" /\ e.value \in 0..100
                /\ \A i \in 1..Len(events) :
                      (events[i].worker = w /\ events[i].sig = "progress") =>
                          events[i].value <= e.value
                /\ workers'[w].pc = "run_33"
            /\ (workers'[w].pc # workers[w].pc /\ workers[w].pc = "run_33") =>
                /\ Emits(w) /\ e.sig \in {"finished", "error"}
                /\ e.sig = "finished" =>
                      /\ e.audio # None /\ Len(e.audio) > 0
                      /\ e.rate \in Nat \ {NoRate}
                      /\ e.audio = workers[w].audio_data
                      /\ e.rate = workers[w].sample_rate
                /\ e.sig = "error" => e.audio = None
                /\ e.sig = "finished" <=> workers[w].audio_data # None
                /\ workers'[w].pc = "exit"
            /\ workers[w].pc = "exit" => workers'[w].pc = "exit"
            /\ (Len(events') > Len(events) /\ e.worker = w) =>
                /\ isRunning(w)
                /\ workers[w].pc \in {"run_27", "run_31", "run_33"}
                /\ workers'[w].pc # workers[w].pc]_vars

\* a task has run to completion with nothing delivered yet: its queue holds
\* the two progress reports and then the finished signal with its buffer
TaskReportedSuccess ==
    \E w \in WorkerIds :
        /\ workers[w].state = "finished"
        /\ Len(EventsOf(w)) = 3
        /\ EventsOf(w)[1].sig = "progress" /\ EventsOf(w)[1].value = 10
        /\ EventsOf(w)[2].sig = "progress" /\ EventsOf(w)[2].value = 100
        /\ EventsOf(w)[3].sig = "finished" /\ Len(EventsOf(w)[3].audio) > 0

(***************************************************************************)
(* Properties of the mix slider's debounce                                 *)
(***************************************************************************)
\* the workers started in this step
Started == { w \in WorkerIds : workers[w].state = "unstarted"
                               /\ workers'[w].state # "unstarted" }

\* C23: moving the mix slider starts no task, it only restarts the timer with
\* the whole interval; time passing starts no task; the timer stops only by
\* firing, which happens only once the slider has been still for the whole
\* interval, and with IR and DI selected the firing starts exactly one task
\* whose wet mix is the slider's value, the last one of the burst.
MixDebounced ==
    [][/\ mix_slider' # mix_slider =>
            /\ Started = {}
            /\ mix_debounce_timer' = [active |-> TRUE, remaining |-> DebounceInterval]
       /\ (quiet' # quiet \/ mix_debounce_timer'.remaining < mix_debounce_timer.remaining)
             => Started = {}
       /\ (mix_debounce_timer.active /\ ~mix_debounce_timer'.active) =>
            /\ quiet = DebounceInterval
            /\ mix_slider' = mix_slider
            /\ (current_ir # NoPath /\ current_di # NoPath) =>
                  /\ Started = {convolution_worker'}
                  /\ workers'[convolution_worker'].state = "running"
                  /\ workers'[convolution_worker'].wet_mix = mix_slider
            /\ ~(current_ir # NoPath /\ current_di # NoPath) => Started = {}]_vars

\* after a first task from the selection, the slider was moved twice within
\* the interval (to 50 and back to 100) and then left alone: the one task
\* started since runs with the last value
BurstStartedOneTask ==
    /\ burst = MaxBurst /\ mix_slider = 100
    /\ ~mix_debounce_timer.active
    /\ convolution_worker = 2
    /\ workers[2].state = "running" /\ workers[2].wet_mix = 100
    /\ workers[1].state = "finished"

(***************************************************************************)
(* Properties of the equalizer                                             *)
(***************************************************************************)
\* C24: a change of an equalizer gain does not itself recompute the
\* equalization: the step that changes a gain leaves the engine's buffer as
\* it is, the one recompute of a burst coming later, off the main thread.
GainChangesDebounced ==
    [][equalizer_dialog'.current_gains # equalizer_dialog.current_gains =>
           UNCHANGED <<audio_data, shared>>]_vars

\* update_equalization ran in this step with all gains 0 and a result loaded
ZeroGainsApplied ==
    /\ header_raw_audio # None
    /\ equalizer_dialog'.current_gains = FlatGains
    /\ \/ reset_flat
       \/ on_slider_changed
       \/ on_toggled /\ equalizer_dialog'.btn_enable

\* C25: with all 10 gains 0 process_frame returns the buffer it was given,
\* for every buffer and sample rate; and update_equalization with all gains 0
\* leaves the engine holding exactly the samples of the raw buffer, with the
\* cursor, the playback state and the host's streams as they were.
FlatGainsBypass ==
    [][/\ \A b \in (Buffers \cup {header_raw_audio, audio_data}) \ {None},
             r \in SampleRates \cup {current_sample_rate} :
             process_frame(b, r, FlatGains) = [ok |-> TRUE, audio |-> b]
       /\ ZeroGainsApplied =>
            /\ audio_data' = header_raw_audio
            /\ UNCHANGED <<header_raw_audio, sample_rate, position, volume,
                           _is_playing, _is_paused, stream>>
            /\ UNCHANGED hostVars]_vars

\* the gains were set and then reset to 0 during playback: the engine plays
\* the raw array itself from where it was
FlatAppliedWhilePlaying ==
    /\ header_raw_audio # None /\ Len(header_raw_audio) > 0
    /\ equalizer_dialog.btn_enable
    /\ equalizer_dialog.current_gains = FlatGains
    /\ shared /\ audio_data = header_raw_audio
    /\ is_playing /\ position > 0

(***************************************************************************)
(* Properties of ConvolutionProcessor.process                              *)
(***************************************************************************)
\* wet_mix values, in percent
WetMixes == {0, 25, 50, 75, 100}
\* both assets are loaded
Loaded(proc) == proc.ir_data # NoData /\ proc.di_data # NoData

\* C26: with a DI of N samples and an IR of M samples after resampling, a
\* process() that succeeds returns N+M-1 samples at the DI's sample rate,
\* whatever the wet mix; the task's run() holds exactly that result.
ResultLength ==
    /\ \A wet_mix \in WetMixes :
          LET r == process(convolution_processor, wet_mix)
          IN  r.ok =>
                /\ Len(r.audio_data) = Len(convolution_processor.di_data.v)
                                       + Len(ResampledIR(convolution_processor)) - 1
                /\ r.sample_rate = convolution_processor.di_sample_rate
    /\ \A w \in WorkerIds :
          (isRunning(w) /\ workers[w].pc = "run_31" /\ workers[w].audio_data # None) =>
                /\ Len(workers[w].audio_data) = Len(convolution_processor.di_data.v)
                                                + Len(ResampledIR(convolution_processor)) - 1
                /\ workers[w].sample_rate = convolution_processor.di_sample_rate
                /\ convolution_processor.last_result = workers[w].audio_data
                /\ convolution_processor.last_sample_rate = workers[w].sample_rate

\* process() has returned the result of a 3-sample DI at rate 2 with an IR
\* resampled from rate 3 to 1 sample, mixed half dry: 3 samples at rate 2
ResultOfResampledIR ==
    /\ isRunning(1) /\ workers[1].pc = "run_31"
    /\ workers[1].wet_mix = 50
    /\ Len(convolution_processor.di_data.v) = 3
    /\ Len(convolution_processor.ir_data.v) = 2
    /\ convolution_processor.ir_sample_rate = 3
    /\ Len(workers[1].audio_data) = 3
    /\ workers[1].sample_rate = 2

\* C27: when the rates differ the IR is resampled to
\* floor(len(IR) * diRate / irRate) samples, the quotient truncated and not
\* rounded; when they are equal the IR is used as it is; the result of the
\* task has the length that follows.
ResampleTruncates ==
    Loaded(convolution_processor) =>
        LET proc == convolution_processor
            n == Len(proc.ir_data.v) * proc.di_sample_rate
            d == proc.ir_sample_rate
        IN  /\ proc.ir_sample_rate # proc.di_sample_rate =>
                  /\ Len(ResampledIR(proc)) = n \div d
                  /\ d * Len(ResampledIR(proc)) <= n
                  /\ n < d * (Len(ResampledIR(proc)) + 1)
            /\ proc.ir_sample_rate = proc.di_sample_rate =>
                  ResampledIR(proc) = proc.ir_data.v
            /\ \A w \in WorkerIds :
                  (isRunning(w) /\ workers[w].pc = "run_31"
                   /\ workers[w].audio_data # None) =>
                      Len(workers[w].audio_data) =
                          Len(proc.di_data.v) - 1
                          + (IF proc.ir_sample_rate # proc.di_sample_rate
                             THEN n \div d ELSE Len(proc.ir_data.v))

\* C27 as stated: the resampled IR has round(len(IR) * diRate / irRate)
\* samples when the rates differ, and is the IR itself when they are equal.
ResampleRounds ==
    Loaded(convolution_processor) =>
        LET proc == convolution_processor
        IN  /\ proc.ir_sample_rate # proc.di_sample_rate =>
                  Len(ResampledIR(proc)) =
                      Round(Len(proc.ir_data.v) * proc.di_sample_rate, proc.ir_sample_rate)
            /\ proc.ir_sample_rate = proc.di_sample_rate =>
                  ResampledIR(proc) = proc.ir_data.v

\* a 3-sample IR at rate 2 with a DI at rate 1: 1.5 samples, resampled to 1
\* (rounding gives 2), and the task's result has the DI's 2 samples
ResampledToTruncatedLength ==
    /\ Len(convolution_processor.ir_data.v) = 3
    /\ convolution_processor.ir_sample_rate = 2
    /\ convolution_processor.di_sample_rate = 1
    /\ Len(ResampledIR(convolution_processor)) = 1
    /\ isRunning(1) /\ workers[1].pc = "run_31"
    /\ Len(workers[1].audio_data) = 2

(***************************************************************************)
(* Properties of the arrays the engine is handed                           *)
(***************************************************************************)
\* C28: the samples of an array never change once it exists.  The raw
\* array the window keeps changes only by being replaced with a delivered
\* result; the array the engine plays changes only in a step that binds one
\* (a delivered result, or the equalizer's slots through update_audio), and
\* while the engine plays the raw array itself the two hold the same
\* samples; a result the processor or a worker holds, and one queued for
\* delivery, change only by being replaced or consumed.
NoInPlaceWrite ==
    [][/\ header_raw_audio' # header_raw_audio => Delivered("finished")
       /\ audio_data' # audio_data =>
            \/ Delivered("finished")
            \/ equalizer_dialog' # equalizer_dialog
       /\ shared' => audio_data' = header_raw_audio'
       /\ (shared /\ shared' /\ ~Delivered("finished")) => audio_data' = audio_data
       /\ \A w \in WorkerIds :
            workers'[w].audio_data # workers[w].audio_data =>
                /\ workers[w].pc = "run_29" /\ workers'[w].pc = "run_31"
                /\ workers[w].audio_data = None
       /\ convolution_processor'.last_result # convolution_processor.last_result =>
            \E w \in WorkerIds :
                /\ workers[w].pc = "run_29" /\ workers'[w].pc = "run_31"
                /\ convolution_processor'.last_result = workers'[w].audio_data
       /\ \/ events' = events
          \/ events # <<>> /\ events' = Tail(events)
          \/ SubSeq(events', 1, Len(events)) = events]_vars

\* the equalizer was used with a gain set and then switched off during
\* playback: the engine plays the window's raw array itself
EnginePlaysRawArray ==
    /\ shared /\ audio_data = header_raw_audio
    /\ ~equalizer_dialog.btn_enable
    /\ equalizer_dialog.current_gains # FlatGains
    /\ is_playing /\ position > 0
    /\ stream # NoStream /\ streams[stream] = "active"

\* worker w executes line 29 / lines 33-36 of run() in this step
CallsProcess(w) == workers[w].pc = "run_29" /\ workers'[w].pc = "run_31"
ReportsResult(w) == workers[w].pc = "run_33" /\ workers'[w].pc = "exit"

\* C29: process() with the IR or the DI (or both) not loaded returns
\* (None, None) and leaves the assets and the last result as they were; the
\* task that called it then reports a failure, emitting the error signal
\* and no finished signal.
UnloadedProcessFails ==
    [][/\ ~Loaded(convolution_processor) =>
            \A wet_mix \in WetMixes :
                process(convolution_processor, wet_mix) =
                    [ok |-> FALSE, audio_data |-> None, sample_rate |-> NoRate,
                     proc |-> convolution_processor]
       /\ \A w \in WorkerIds :
            /\ (CallsProcess(w) /\ ~Loaded(convolution_processor)) =>
                  /\ workers'[w].audio_data = None
                  /\ workers'[w].sample_rate = NoRate
                  /\ UNCHANGED convolution_processor
            /\ (ReportsResult(w) /\ ~Loaded(convolution_processor)) =>
                  /\ Emits(w)
                  /\ events'[Len(events')].sig = "error"]_vars

\* C29 as stated: process() with an asset not loaded returns (None, None),
\* changes no processor state, and the call is taken as nothing to do: the
\* task reports no error.
UnloadedProcessIsNoError ==
    [][\A w \in WorkerIds :
            /\ (CallsProcess(w) /\ ~Loaded(convolution_processor)) =>
                  /\ workers'[w].audio_data = None
                  /\ workers'[w].sample_rate = NoRate
                  /\ UNCHANGED convolution_processor
            /\ (ReportsResult(w) /\ ~Loaded(convolution_processor)) =>
                  \A i \in 1..Len(events') :
                      events'[i].worker = w => events'[i].sig # "error"]_vars

\* a task ran with the DI loaded and the IR not: its error was delivered and
\* the processor still holds the DI and no result
ErrorForUnloadedIR ==
    /\ convolution_processor.ir_data = NoData
    /\ convolution_processor.di_data # NoData
    /\ convolution_processor.last_result = None
    /\ workers[1].state = "finished" /\ workers[1].audio_data = None
    /\ events = <<>> /\ ~progress_bar.visible
    /\ ~has_audio

\* update_equalization printed the error of a process_frame call in this step
EqualizationFailed == ~eq_failed /\ eq_failed'

\* C30: process_frame raises its validation error, filtering nothing,
\* whenever the gains list does not hold exactly 10 elements, a list of
\* zeros included; and a call of update_equalization in which it raised
\* leaves the engine's buffer, its position and its playing state, the
\* stream and the window's raw array as they were (the buffer load_audio
\* bound, when the call is the one on_convolution_finished makes).
WrongLengthGainsRejected ==
    [][/\ \A gains \in GainLists, path \in AllIRPaths \cup AllDIPaths :
            LET r == process_frame(Files[path].data, Files[path].rate, gains)
            IN  /\ Len(gains) # 10 => ~r.ok
                /\ (Len(gains) = 10 /\ ~IirpeakRaises(Files[path].rate, gains)) => r.ok
                /\ ~r.ok => r.audio = Files[path].data
       /\ (EqualizationFailed /\ ~Delivered("finished")) =>
            /\ UNCHANGED <<engineVars, hostVars, shared, header_raw_audio>>
            /\ equalizer_dialog'.btn_enable /\ header_raw_audio # None
       /\ (EqualizationFailed /\ Delivered("finished")) =>
            audio_data' = AsFloat32(header_raw_audio')]_vars

\* update_equalization was called with a list of the wrong length while the
\* engine was playing an equalized buffer: the buffer is still the equalized
\* one and playback goes on
FailedFrameWhilePlaying ==
    /\ eq_failed
    /\ header_raw_audio # None /\ audio_data # header_raw_audio
    /\ equalizer_dialog.btn_enable
    /\ is_playing /\ position > 0
    /\ stream # NoStream /\ streams[stream] = "active"

\* C31: for 10 gains within +/-12 dB and a buffer whose samples lie in
\* [-1, 1] (-100..100 in hundredths), every sample of a buffer process_frame
\* returns lies in [-1, 1], on the bypass path and on the filtering path;
\* and so does every sample of the buffer the engine holds.
EqualizedWithinUnit ==
    /\ \A g1, g10 \in {-12, -6, 0, 6, 12}, rate \in 1..3,
          audio \in {<<>>, <<100>>, <<-100, 60>>, <<2, -98, 100>>} :
          LET gains == [i \in 1..10 |-> IF i = 1 THEN g1 ELSE IF i = 10 THEN g10 ELSE 0]
              r == process_frame(audio, rate, gains)
          IN  r.ok => /\ Len(r.audio) = Len(audio)
                      /\ \A i \in 1..Len(audio) : r.audio[i] \in -100..100
    /\ audio_data # None => \A i \in 1..Len(audio_data) : audio_data[i] \in -100..100

\* the equalizer is on with a boost and the engine holds a buffer other than
\* the raw one, a sample of which was limited to full scale
BoostedSampleClipped ==
    /\ header_raw_audio # None /\ audio_data # None
    /\ equalizer_dialog.btn_enable
    /\ \E i \in 1..10 : equalizer_dialog.current_gains[i] > 0
    /\ ~eq_failed
    /\ audio_data # header_raw_audio
    /\ \E i \in 1..Len(audio_data) :
          /\ audio_data[i] \in {-100, 100}
          /\ SosFilt(header_raw_audio[i], equalizer_dialog.current_gains, 1) \notin -100..100

\* C32: a result of process() is 0.9 x / max|x| as float32, where x is the
\* normalised wet signal alone at wet_mix = 1, the DI padded with zeros to
\* the wet length alone at wet_mix = 0, and (1 - wet_mix) * dry + wet_mix * wet
\* in between; the task's run() holds exactly that.
MixEndpoints ==
    LET proc == convolution_processor
        wet == WetSignal(proc)
        di == proc.di_data
        Scaled(x) == [i \in 1..Len(x) |->
                        IF MaxAbs(x) > 0 THEN F32(Trunc(900 * x[i], 10 * MaxAbs(x)))
                        ELSE 0]
        dry == [i \in 1..Len(wet.v) |-> IF i <= Len(di.v) THEN di.v[i] ELSE 0]
        Expected(wet_mix) ==
            IF wet_mix = 100 THEN Scaled(wet.v)
            ELSE IF wet_mix = 0 THEN Scaled(dry)
            ELSE Scaled([i \in 1..Len(wet.v) |->
                            (100 - wet_mix) * dry[i] * wet.s + wet_mix * wet.v[i] * di.s])
    IN  /\ \A wet_mix \in WetMixes :
              process(proc, wet_mix).ok =>
                  process(proc, wet_mix).audio_data = Expected(wet_mix)
        /\ \A w \in WorkerIds :
              (isRunning(w) /\ workers[w].pc = "run_31" /\ workers[w].audio_data # None) =>
                  workers[w].audio_data = Expected(workers[w].wet_mix)

\* process() has returned a fully dry result longer than the DI: the DI's
\* samples scaled, then zeros, and not what the wet signal alone gives
DryResultZeroPadded ==
    /\ isRunning(1) /\ workers[1].pc = "run_31"
    /\ workers[1].wet_mix = 0
    /\ workers[1].audio_data # None
    /\ Len(workers[1].audio_data) > Len(convolution_processor.di_data.v)
    /\ \A i \in 1..Len(workers[1].audio_data) :
          i > Len(convolution_processor.di_data.v) <=> workers[1].audio_data[i] = 0
    /\ workers[1].audio_data # process(convolution_processor, 100).audio_data

\* C33: the engine's volume lies in [0, 1] (0..10 in tenths) in every
\* state; it changes only in set_volume, which stores its argument when it
\* lies in the range, 0 when it is below and 1 when it is above, and changes
\* no other field of the engine.
VolumeWithinUnit ==
    [][/\ volume \in 0..10 /\ volume' \in 0..10
       /\ (ctl.pc = "idle" /\ ctl'.op = "set_volume") =>
            /\ \E v \in VolumeInputs :
                  volume' = (IF v < 0 THEN 0 ELSE IF v > 10 THEN 10 ELSE v)
            /\ UNCHANGED <<audio_data, sample_rate, position, _is_playing, _is_paused,
                           stream, hostVars>>
       /\ volume' # volume => (ctl.pc = "idle" /\ ctl'.op = "set_volume")]_vars

\* set_volume was called during playback with a value above 1 or below 0 and
\* stored the end of the range
VolumeClampedWhilePlaying ==
    /\ ctl.op = "set_volume" /\ ctl.pc = "ret"
    /\ volume \in {0, 10}
    /\ is_playing /\ position > 0
    /\ stream # NoStream /\ streams[stream] = "active"

\* C34: no step of a callback invocation allocates memory, performs I/O or
\* blocks: on every path the callback only reads and writes fields and
\* copies samples.
CallbackRealTimeSafe ==
    [][\A s \in StreamIds : CbEffects(s) = {}]_vars

\* every step of an invocation in flight can be taken whatever the
\* controller is doing: the callback waits on no lock and on no engine call
CallbackNeverWaits ==
    \A s \in StreamIds :
        cb[s].pc # "idle" =>
            ENABLED (\/ CbCheckPlaying(s) \/ CbReadAudio(s) \/ CbReadPosition(s)
                     \/ CbFinished(s) \/ CbCopy(s) \/ CbStorePosition(s) \/ CbReturn(s))

\* C35: an invocation that finds the engine Playing with the cursor c below
\* the length L of the buffer it read emits, for each of the F frames,
\* buffer[c+k] times the volume while c+k < L and 0 from there on, and then
\* stores min(c+F, L) as the cursor; c is the one value it read at line 77
\* and the volume the one value it read when it copied.
BlockCopiedAndCursorStored ==
    [][\A s \in StreamIds :
          LET c == cb[s].pos
              L == cb[s].audio_len
          IN  /\ (cb[s].pc = "cb_76" /\ cb'[s].pc = "cb_84") =>
                    /\ cb'[s].pos = position /\ position < L
                    /\ L = Len(cb[s].audio)
              /\ (cb[s].pc = "cb_84" /\ cb'[s].pc = "cb_90") =>
                    /\ c < L
                    /\ Len(outdata'[s]) = Frames
                    /\ \A k \in 0..(Frames - 1) :
                          outdata'[s][k + 1] = IF c + k < L
                                               THEN cb[s].audio[c + k + 1] * volume
                                               ELSE 0
                    /\ UNCHANGED <<position, volume>>
              /\ (cb[s].pc = "cb_90" /\ cb'[s].pc = "ret") =>
                    /\ position' = (IF c + Frames < L THEN c + Frames ELSE L)
                    /\ UNCHANGED <<outdata, volume>>
              /\ (cb[s].pc \in {"cb_84", "cb_90"} /\ cb'[s].pc # "idle") =>
                    /\ cb'[s].pos = c
                    /\ cb'[s].audio = cb[s].audio /\ cb'[s].audio_len = L]_vars

\* the last, shorter block of the longest buffer was played at a volume
\* above 0: its first frame is the last sample scaled, the rest is zero, and
\* the cursor is the buffer length
PartialBlockZeroFilled ==
    \E s \in StreamIds :
        /\ cb[s].pc = "ret"
        /\ cb[s].audio_len = MaxLen /\ cb[s].pos = MaxLen - 1
        /\ volume \in 1..9
        /\ outdata[s] # <<>>
        /\ outdata[s][1] = cb[s].audio[MaxLen] * volume /\ outdata[s][1] # 0
        /\ \A k \in 2..Frames : outdata[s][k] = 0
        /\ position = MaxLen

ConsistentSnapshot ==
    [][Delivered("finished") =>
          \E ir \in AllIRPaths, di \in AllDIPaths, wet_mix \in MixPositions :
              LET r == process(load_di(load_ir(ProcessorInit, ir), di), wet_mix)
              IN  /\ r.ok
                  /\ r.audio_data = Head(events).audio
                  /\ r.sample_rate = Head(events).rate]_vars

(***************************************************************************)
(* MainWindow.toggle_play_pause: the play/pause button, taken between two  *)
(* callback invocations.  pause() only sets the paused flag; resume()      *)
(* clears it on a stream that is still playing and calls play() (lines     *)
(* 44-118, the cursor left where it is) when playback has stopped.         *)
(***************************************************************************)
toggle_play_pause ==
    /\ ~aborted
    /\ \A s \in StreamIds : cb[s].pc = "idle"
    /\ IF has_audio
       THEN IF win_is_playing
            THEN /\ _is_paused' = TRUE
                 /\ win_is_playing' = FALSE
                 /\ position_timer' = FALSE
                 /\ UNCHANGED <<audio_data, sample_rate, position, volume, _is_playing,
                                stream, hostVars>>
            ELSE /\ IF _is_paused /\ _is_playing
                    THEN /\ _is_paused' = FALSE
                         /\ UNCHANGED <<audio_data, sample_rate, position, volume,
                                        _is_playing, stream, hostVars>>
                    ELSE IF ~_is_playing
                         THEN LET stopped == IF stream = NoStream THEN streams
                                             ELSE [streams EXCEPT ![stream] = "closed"]
                              IN  /\ _is_paused' = FALSE
                                  /\ \E outcome \in {"started", "open_failed", "start_failed"} :
                                        /\ stream' = (IF outcome = "open_failed" THEN NoStream
                                                      ELSE NewStreamIn(stopped))
                                        /\ streams' = (IF outcome = "open_failed" THEN stopped
                                                       ELSE [stopped EXCEPT ![NewStreamIn(stopped)] =
                                                               IF outcome = "started" THEN "active"
                                                               ELSE "inactive"])
                                        /\ _is_playing' = (outcome = "started")
                                  /\ UNCHANGED <<audio_data, sample_rate, position, volume,
                                                 cb, outdata>>
                         ELSE UNCHANGED <<engineVars, hostVars>>
                 /\ win_is_playing' = TRUE
                 /\ position_timer' = TRUE
       ELSE UNCHANGED <<win_is_playing, position_timer, engineVars, hostVars>>
    /\ UNCHANGED is_looping
    /\ TransportFrame

(***************************************************************************)
(* Requests issued while a result is loaded.  The window has delivered the *)
(* result of ir_a and di_a and is playing it, with the cursor anywhere in  *)
(* the buffer; the worker that produced it has finished, and WorkerIds     *)
(* number the workers created from here on.  The user then selects a DI    *)
(* file and, after it, IR files (files that load), and uses the play/pause *)
(* button: the first worker is the one requested by the DI change, every   *)
(* later one is requested by an IR change.                                 *)
(***************************************************************************)
RestoreInit ==
    LET proc == load_di(load_ir(ProcessorInit, "ir_a"), "di_a")
        r == process(proc, 100)
    IN  /\ audio_data = AsFloat32(r.audio_data)
        /\ sample_rate = r.sample_rate
        /\ position \in 0..Len(r.audio_data)
        /\ volume = 8
        /\ _is_playing = TRUE
        /\ _is_paused = FALSE
        /\ stream = 1
        /\ streams = [s \in StreamIds |-> IF s = 1 THEN "active" ELSE "closed"]
        /\ cb = [s \in StreamIds |-> IdleCb]
        /\ outdata = [s \in StreamIds |-> <<>>]
        /\ ctl = IdleCtl
        /\ current_ir = "ir_a"
        /\ current_di = "di_a"
        /\ convolution_processor = r.proc
        /\ convolution_worker = NoWorker
        /\ _preserve_position = FALSE
        /\ _saved_position = Rat(0, 1)
        /\ _was_playing = TRUE
        /\ win_is_playing = TRUE
        /\ is_looping = TRUE
        /\ mix_slider = 100
        /\ mix_debounce_timer = StoppedTimer
        /\ volume_slider = 80
        /\ progress_bar = [value |-> 100, visible |-> FALSE]
        /\ position_timer = TRUE
        /\ header_raw_audio = r.audio_data
        /\ shared = TRUE
        /\ eq_failed = FALSE
        /\ current_sample_rate = r.sample_rate
        /\ equalizer_dialog = [btn_enable |-> TRUE, current_gains |-> FlatGains]
        /\ workers = [w \in WorkerIds |-> NewWorker]
        /\ events = <<>>
        /\ aborted = FALSE
        /\ quiet = DebounceInterval
        /\ burst = 0

RestoreNext ==
    \/ on_di_selected /\ convolution_worker = NoWorker /\ ~aborted'
    \/ on_ir_selected /\ convolution_worker # NoWorker /\ ~aborted'
    \/ toggle_play_pause
    \/ run
    \/ on_convolution_progress
    \/ on_convolution_finished
    \/ Playback

SpecRestore == RestoreInit /\ [][RestoreNext]_vars

StreamStartsInsideBuffer ==
    [][\A s \in StreamIds :
          (/\ ctl.op \in {"play", "resume"}
           /\ streams[s] # "active" /\ streams'[s] = "active"
           /\ audio_data # None /\ Len(audio_data) > 0) =>
              position < Len(audio_data)]_vars
====
